---- MODULE Spec2Model ----
(***************************************************************************)
(* oxtu: a UTXO-address index that follows a bitcoin-like full node.       *)
(*                                                                         *)
(* The model covers the store of crates/oxtu-index/src/db.rs (five column  *)
(* families written through one batch), the decimal type of types.rs and   *)
(* the chain follower of lib.rs (Index::start), run against an upstream    *)
(* node that mines blocks and invalidates them.                            *)
(*                                                                         *)
(* Hashes and txids are 32-byte values in the code; here they are small    *)
(* positive integers (0 is the all-zero hash), and a hex string and the    *)
(* U256 it decodes to are the same integer.  Scripts are small integers.   *)
(* A U128Decimal is the pair <<mantissa, scale>>.                          *)
(***************************************************************************)
EXTENDS Integers, Sequences, FiniteSets, TLC

VARIABLES
    rocksdb,       \* Db.rocksdb: the five column families, as committed
    pc,            \* where the follower task of Index::start is
    next,          \* its `next: Progress`
    next_hash,     \* connect's `next_hash`, while get_block is in flight
    sleeping,      \* SystemTime::now() < sleep_until
    stop,          \* stop_rx.has_changed()
    synced,        \* what the last connect() returned, "None" before the first
    popped,        \* Option<Block>: what the last db.pop() returned
    blocks,        \* upstream: every block the node knows, by hash
    active,        \* upstream: the hashes of its active chain, by height
    invalidated,   \* upstream: invalidateblock calls so far
    restarts,      \* process restarts so far
    prune_call,    \* Option<u64>: the db.prune_until(h) call of the last
                   \* main step, <<>> when it made none
    reply,         \* query surface: the last request and its response
    dec            \* a U128Decimal under `+=` and `-=`: the operands, the
                   \* value before, and how far the arithmetic has got

vars == <<rocksdb, pc, next, next_hash, sleeping, stop, synced, popped,
          blocks, active, invalidated, restarts, prune_call, reply, dec>>

\* ------------------------------------------------------------------ bounds
\* Blocks the upstream mines on top of the genesis block, over a whole run.
MaxMined == 3
\* The same where the upstream mines coinbase-only blocks (LiveSpec).
MaxMinedPlain == 5
\* invalidateblock calls of the upstream.
MaxInvalidate == 1
\* Times the follower task is started again after it ended.
MaxRestarts == 1

\* RetentionSpec: the height of the indexed tip when the run starts, the
\* blocks the upstream mines during the run, and how many blocks below its
\* tip an invalidateblock may name.
HighStart == 19998
MaxMinedHigh == 3
MaxMinedPaid == 4
MaxReorgDepth == 2

\* Blocks kept below the tip by the pruner (lib.rs:132).
Retention == 10000

\* None of an Option<..> in the RPC types.
None == -1

Scripts == {1, 2}
\* The script the upstream node mines to.
Miner == 1

\* ------------------------------------------------------------ U128Decimal
ZeroDecimal == <<0, 0>>

RECURSIVE Pow10(_)
Pow10(n) == IF n = 0 THEN 1 ELSE 10 * Pow10(n - 1)

MaxOf(a, b) == IF a >= b THEN a ELSE b

\* u128::MAX, scaled down: the mantissa is kept modulo U128_MAX + 1.
U128_MAX == 32767

\* What an unchecked u128 operation leaves behind where the build has no
\* overflow checks: the exact result modulo 2^width.
wrapping(x) == x % (U128_MAX + 1)

\* An exact result a u128 cannot hold.
overflows(x) == x < 0 \/ x > U128_MAX

\* 10u128.pow(exp)
pow(exp) == wrapping(Pow10(exp))

\* impl AddAssign for U128Decimal: the value stored when no operation of it
\* panics.
add_assign(self, rhs) ==
    LET scale == MaxOf(self[2], rhs[2]) IN
    IF self[2] < scale
    THEN <<wrapping(wrapping(self[1] * pow(scale - self[2])) + rhs[1]), scale>>
    ELSE IF rhs[2] < scale
    THEN <<wrapping(self[1] + wrapping(rhs[1] * pow(scale - rhs[2]))), scale>>
    ELSE <<wrapping(self[1] + rhs[1]), scale>>

\* Some operation of add_assign has an exact result outside u128: the
\* power, the rescaled mantissa or the sum.
add_assign_overflows(self, rhs) ==
    LET scale == MaxOf(self[2], rhs[2]) IN
    IF self[2] < scale
    THEN IF overflows(Pow10(scale - self[2])) THEN TRUE
         ELSE IF overflows(self[1] * Pow10(scale - self[2])) THEN TRUE
         ELSE overflows(self[1] * Pow10(scale - self[2]) + rhs[1])
    ELSE IF rhs[2] < scale
    THEN IF overflows(Pow10(scale - rhs[2])) THEN TRUE
         ELSE IF overflows(rhs[1] * Pow10(scale - rhs[2])) THEN TRUE
         ELSE overflows(self[1] + rhs[1] * Pow10(scale - rhs[2]))
    ELSE overflows(self[1] + rhs[1])

\* sub_assign as it would be if the right-hand side were never rescaled.
sub_assign_unscaled(self, rhs) ==
    LET scale == MaxOf(self[2], rhs[2]) IN
    IF self[2] < scale
    THEN <<wrapping(wrapping(self[1] * pow(scale - self[2])) - rhs[1]), scale>>
    ELSE <<wrapping(self[1] - rhs[1]), scale>>

\* impl SubAssign for U128Decimal: the value stored when no operation of it
\* panics.
sub_assign(self, rhs) ==
    LET scale == MaxOf(self[2], rhs[2]) IN
    IF self[2] < scale
    THEN <<wrapping(wrapping(self[1] * pow(scale - self[2])) - rhs[1]), scale>>
    ELSE IF rhs[2] < scale
    THEN <<wrapping(self[1] - wrapping(rhs[1] * pow(scale - rhs[2]))), scale>>
    ELSE <<wrapping(self[1] - rhs[1]), scale>>

\* Some operation of sub_assign has an exact result outside u128.
sub_assign_overflows(self, rhs) ==
    LET scale == MaxOf(self[2], rhs[2]) IN
    IF self[2] < scale
    THEN IF overflows(Pow10(scale - self[2])) THEN TRUE
         ELSE IF overflows(self[1] * Pow10(scale - self[2])) THEN TRUE
         ELSE overflows(self[1] * Pow10(scale - self[2]) - rhs[1])
    ELSE IF rhs[2] < scale
    THEN IF overflows(Pow10(scale - rhs[2])) THEN TRUE
         ELSE IF overflows(rhs[1] * Pow10(scale - rhs[2])) THEN TRUE
         ELSE overflows(self[1] - rhs[1] * Pow10(scale - rhs[2]))
    ELSE overflows(self[1] - rhs[1])

\* ------------------------------------------------------- column families
\* A column family is a function from keys to rows.
EmptyCF == [k \in {} |-> 0]

CFPut(cf, key, row) ==
    IF key \in DOMAIN cf THEN [cf EXCEPT ![key] = row]
    ELSE (key :> row) @@ cf

CFDelete(cf, key) == [k \in (DOMAIN cf) \ {key} |-> cf[k]]

\* Db::open on an empty directory: the five column families, all empty.
EmptyDb ==
    [block |-> EmptyCF, block_undo |-> EmptyCF, utxo |-> EmptyCF,
     utxo_key |-> EmptyCF, script_info |-> EmptyCF]

\* One staged operation of a WriteBatchWithTransaction.
BatchPut(cf, key, row) == [cf |-> cf, put |-> TRUE, key |-> key, row |-> row]
BatchDelete(cf, key) == [cf |-> cf, put |-> FALSE, key |-> key, row |-> None]

ApplyOp(db, op) ==
    IF op.put
    THEN [db EXCEPT ![op.cf] = CFPut(@, op.key, op.row)]
    ELSE [db EXCEPT ![op.cf] = CFDelete(@, op.key)]

\* A write that would stop after the first staged operation.
WriteBatch_first_op_only(db, batch) ==
    IF batch = <<>> THEN db ELSE ApplyOp(db, Head(batch))

\* TransactionDB::write(batch): every staged operation, in order, at once.
RECURSIVE WriteBatch(_, _)
WriteBatch(db, batch) ==
    IF batch = <<>> THEN db
    ELSE WriteBatch(ApplyOp(db, Head(batch)), Tail(batch))

\* ----------------------------------------------------------------- rows
\* ScriptInfo::new
NewScriptInfo(script) ==
    [script |-> script, balance |-> ZeroDecimal, total_sent |-> ZeroDecimal,
     total_received |-> ZeroDecimal, tx_count |-> 0]

\* ScriptInfo::add_unspent
add_unspent(info, value) ==
    [info EXCEPT !.balance = add_assign(@, value),
                 !.total_received = add_assign(@, value),
                 !.tx_count = @ + 1]

\* add_spent as it would be without the total_sent update.
add_spent_keeps_total_sent(info, value) ==
    [info EXCEPT !.balance = sub_assign(@, value),
                 !.tx_count = @ + 1]

\* add_spent as it would be without the balance update.
add_spent_keeps_balance(info, value) ==
    [info EXCEPT !.total_sent = add_assign(@, value),
                 !.tx_count = @ + 1]

\* ScriptInfo::add_spent
add_spent(info, value) ==
    [info EXCEPT !.balance = sub_assign(@, value),
                 !.total_sent = add_assign(@, value),
                 !.tx_count = @ + 1]

\* The six constructors of enum Undo.  arg is the payload: a Utxo, a UtxoKey,
\* a Vout, a ScriptInfo, or (ScriptInfoDelete) the script as [script |-> s].
Undo(tag, arg) == [tag |-> tag, arg |-> arg]

\* The greatest element of a set of heights: the greatest of the elements
\* that have no successor in the set.
MaxOfSet(S) ==
    LET tops == {x \in S : x + 1 \notin S}
    IN CHOOSE x \in tops : \A y \in tops : y <= x

\* Db::peek: Option<Block> as a sequence of length 0 or 1, holding the Block
\* row of maximal height (IteratorMode::End over big-endian keys).
peek(db) ==
    IF DOMAIN db.block = {} THEN <<>>
    ELSE <<db.block[MaxOfSet(DOMAIN db.block)]>>

\* Db::get_utxo: Option<Utxo>; the code panics where this is <<>>.
get_utxo(db, vout) ==
    IF vout \notin DOMAIN db.utxo_key THEN <<>>
    ELSE IF db.utxo_key[vout] \notin DOMAIN db.utxo THEN <<>>
    ELSE <<db.utxo[db.utxo_key[vout]]>>

\* ----------------------------------------------------------------- push
\* The staging state of one Db::push call: the undo list, the two HashMaps,
\* the coinbase flag of the transaction at hand, and whether get_utxo panicked.
PushStart ==
    [undos |-> <<>>, utxos |-> EmptyCF, infos |-> EmptyCF,
     coinbase |-> FALSE, panic |-> FALSE]

\* The closure update_info is handed: |info| info.add_spent(value) or
\* |info| info.add_unspent(value), named by f.
apply_f(f, info, value) ==
    IF f = "add_spent" THEN add_spent(info, value)
    ELSE add_unspent(info, value)

\* update_info as it would be if it recorded the undo entry at every touch
\* of a script, not only at the first.
update_info_undo_every_touch(db, st, script, value, f) ==
    IF script \in DOMAIN st.infos
    THEN [st EXCEPT
            !.undos = Append(@, Undo("ScriptInfoPut", st.infos[script])),
            !.infos[script] = apply_f(f, @, value)]
    ELSE IF script \in DOMAIN db.script_info
    THEN [st EXCEPT
            !.undos = Append(@, Undo("ScriptInfoPut", db.script_info[script])),
            !.infos = CFPut(@, script,
                            apply_f(f, db.script_info[script], value))]
    ELSE [st EXCEPT
            !.undos = Append(@, Undo("ScriptInfoDelete", [script |-> script])),
            !.infos = CFPut(@, script,
                            apply_f(f, NewScriptInfo(script), value))]

\* The update_info closure of Db::push.
update_info(db, st, script, value, f) ==
    IF script \in DOMAIN st.infos
    THEN [st EXCEPT !.infos[script] = apply_f(f, @, value)]
    ELSE IF script \in DOMAIN db.script_info
    THEN [st EXCEPT
            !.undos = Append(@, Undo("ScriptInfoPut", db.script_info[script])),
            !.infos = CFPut(@, script,
                            apply_f(f, db.script_info[script], value))]
    ELSE [st EXCEPT
            !.undos = Append(@, Undo("ScriptInfoDelete", [script |-> script])),
            !.infos = CFPut(@, script,
                            apply_f(f, NewScriptInfo(script), value))]

\* The iteration below as it would be if utxos.remove(&vout) left the entry
\* in the HashMap.
push_vin_keeps_staged(db, st, tx_vin) ==
    IF tx_vin.txid = None THEN [st EXCEPT !.coinbase = TRUE]
    ELSE
      LET vout == [txid |-> tx_vin.txid, n |-> tx_vin.vout] IN
      IF vout \in DOMAIN st.utxos
      THEN update_info(db, st, st.utxos[vout].key.script,
                       st.utxos[vout].value, "add_spent")
      ELSE IF get_utxo(db, vout) = <<>>
      THEN [st EXCEPT !.panic = TRUE]
      ELSE
        LET utxo == get_utxo(db, vout)[1]
            st1 == update_info(db, st, utxo.key.script, utxo.value,
                               "add_spent")
        IN [st1 EXCEPT !.undos =
              @ \o <<Undo("UtxoKeyPut", utxo.key), Undo("UtxoPut", utxo)>>]

\* The iteration below as it would be if an output created earlier in the
\* block were treated like a stored one when spent: left in the HashMap and
\* given the undo entries that restore it.
push_vin_undoes_staged(db, st, tx_vin) ==
    IF tx_vin.txid = None THEN [st EXCEPT !.coinbase = TRUE]
    ELSE
      LET vout == [txid |-> tx_vin.txid, n |-> tx_vin.vout] IN
      IF vout \in DOMAIN st.utxos
      THEN
        LET utxo == st.utxos[vout]
            st1 == update_info(db, st, utxo.key.script, utxo.value, "add_spent")
        IN [st1 EXCEPT !.undos =
              @ \o <<Undo("UtxoKeyPut", utxo.key), Undo("UtxoPut", utxo)>>]
      ELSE IF get_utxo(db, vout) = <<>>
      THEN [st EXCEPT !.panic = TRUE]
      ELSE
        LET utxo == get_utxo(db, vout)[1]
            st1 == update_info(db, st, utxo.key.script, utxo.value, "add_spent")
        IN [st1 EXCEPT !.undos =
              @ \o <<Undo("UtxoKeyPut", utxo.key), Undo("UtxoPut", utxo)>>]

\* One iteration of `for tx_vin in tx.vin`.
push_vin(db, st, tx_vin) ==
    IF tx_vin.txid = None THEN [st EXCEPT !.coinbase = TRUE]
    ELSE
      LET vout == [txid |-> tx_vin.txid, n |-> tx_vin.vout] IN
      IF vout \in DOMAIN st.utxos
      THEN \* created earlier in this block: utxos.remove(&vout) is Some
        update_info(db, [st EXCEPT !.utxos = CFDelete(@, vout)],
                    st.utxos[vout].key.script, st.utxos[vout].value,
                    "add_spent")
      ELSE IF get_utxo(db, vout) = <<>>
      THEN [st EXCEPT !.panic = TRUE]
      ELSE
        LET utxo == get_utxo(db, vout)[1]
            st1 == update_info(db, st, utxo.key.script, utxo.value, "add_spent")
        IN [st1 EXCEPT !.undos =
              @ \o <<Undo("UtxoKeyPut", utxo.key), Undo("UtxoPut", utxo)>>]

RECURSIVE push_vins(_, _, _)
push_vins(db, st, vins) ==
    IF vins = <<>> \/ st.panic THEN st
    ELSE push_vins(db, push_vin(db, st, Head(vins)), Tail(vins))

\* One iteration of `for tx_vout in tx.vout`.  The value is the pair
\* BigDecimal::into_bigint_and_exponent gives (to_u128 and to_u8 succeed on
\* every amount the upstream of this model reports).
push_vout(db, st, txid, height, tx_vout) ==
    LET utxo == [key |-> [script |-> tx_vout.script_pub_key,
                          height |-> height,
                          vout |-> [txid |-> txid, n |-> tx_vout.n]],
                 coinbase |-> st.coinbase,
                 value |-> tx_vout.value]
        st1 == update_info(db, st, utxo.key.script, utxo.value, "add_unspent")
    IN [st1 EXCEPT !.utxos = CFPut(@, utxo.key.vout, utxo)]

RECURSIVE push_vouts(_, _, _, _, _)
push_vouts(db, st, txid, height, vouts) ==
    IF vouts = <<>> THEN st
    ELSE push_vouts(db, push_vout(db, st, txid, height, Head(vouts)),
                    txid, height, Tail(vouts))

\* One iteration of `for tx in rpc_block.tx`.
push_tx(db, st, height, tx) ==
    LET st1 == push_vins(db, [st EXCEPT !.coinbase = FALSE], tx.vin) IN
    IF st1.panic THEN st1
    ELSE push_vouts(db, st1, tx.txid, height, tx.vout)

RECURSIVE push_txs(_, _, _, _)
push_txs(db, st, height, txs) ==
    IF txs = <<>> \/ st.panic THEN st
    ELSE push_txs(db, push_tx(db, st, height, Head(txs)), height, Tail(txs))

\* The staging state when the transaction loop of Db::push ends.
push_stage(db, rpc_block) ==
    push_txs(db, PushStart, rpc_block.height, rpc_block.tx)

\* The orders in which a HashMap with key set S may be iterated.
Orders(S) ==
    {o \in [1..Cardinality(S) -> S] :
        \A i, j \in 1..Cardinality(S) : o[i] = o[j] => i = j}

RECURSIVE SetToSeq(_)
SetToSeq(S) ==
    IF S = {} THEN <<>>
    ELSE LET x == CHOOSE y \in S : \A z \in S : y <= z
         IN <<x>> \o SetToSeq(S \ {x})

\* `for (_, utxo) in utxos`: the batch operations and the undo entries of
\* the outputs that survive the block, in the HashMap's order.
RECURSIVE push_utxo_puts(_, _)
push_utxo_puts(utxos, order) ==
    IF order = <<>> THEN <<>>
    ELSE <<BatchPut("utxo", utxos[Head(order)].key, utxos[Head(order)]),
           BatchPut("utxo_key", Head(order), utxos[Head(order)].key)>>
         \o push_utxo_puts(utxos, Tail(order))

RECURSIVE push_utxo_undos(_, _)
push_utxo_undos(utxos, order) ==
    IF order = <<>> THEN <<>>
    ELSE <<Undo("UtxoDelete", utxos[Head(order)].key),
           Undo("UtxoKeyDelete", Head(order))>>
         \o push_utxo_undos(utxos, Tail(order))

\* `for (_, info) in infos`: the rows are keyed by distinct scripts, so the
\* HashMap's order does not show in the store.
push_info_puts(infos) ==
    LET keys == SetToSeq(DOMAIN infos) IN
    [i \in 1..Len(keys) |-> BatchPut("script_info", keys[i], infos[keys[i]])]

\* The loop below as it would be if its UtxoKeyPut arm did nothing.
RECURSIVE push_spent_deletes_utxo_only(_)
push_spent_deletes_utxo_only(undos) ==
    IF undos = <<>> THEN <<>>
    ELSE (IF Head(undos).tag = "UtxoPut"
          THEN <<BatchDelete("utxo", Head(undos).arg.key)>>
          ELSE <<>>)
         \o push_spent_deletes_utxo_only(Tail(undos))

\* `for undo in undos.iter()`: the spent rows leave Utxo and UtxoKey.
RECURSIVE push_spent_deletes(_)
push_spent_deletes(undos) ==
    IF undos = <<>> THEN <<>>
    ELSE (IF Head(undos).tag = "UtxoPut"
          THEN <<BatchDelete("utxo", Head(undos).arg.key)>>
          ELSE IF Head(undos).tag = "UtxoKeyPut"
          THEN <<BatchDelete("utxo_key", Head(undos).arg.vout)>>
          ELSE <<>>)
         \o push_spent_deletes(Tail(undos))

\* The batch Db::push writes, given the staging state and the order in which
\* the utxos HashMap is iterated.
push_batch(rpc_block, st, order) ==
    LET undos == st.undos \o push_utxo_undos(st.utxos, order)
        block == [height |-> rpc_block.height,
                  hash |-> rpc_block.hash,
                  prev_hash |-> IF rpc_block.previousblockhash = None THEN 0
                                ELSE rpc_block.previousblockhash]
        block_undo == [height |-> rpc_block.height, vec |-> undos]
    IN push_utxo_puts(st.utxos, order)
       \o push_info_puts(st.infos)
       \o push_spent_deletes(undos)
       \o <<BatchPut("block", block.height, block),
            BatchPut("block_undo", block_undo.height, block_undo)>>

\* push as it would be if the Block row went to the store directly instead
\* of into the batch: a push that aborts would leave the row behind.
push_writes_block_on_abort(db, rpc_block, order) ==
    CHOOSE r \in
        UNION {IF st.panic
               THEN {[panic |-> TRUE,
                      db |-> ApplyOp(db, BatchPut("block", rpc_block.height,
                                [height |-> rpc_block.height,
                                 hash |-> rpc_block.hash,
                                 prev_hash |-> rpc_block.previousblockhash]))]}
               ELSE {[panic |-> FALSE, db |-> WriteBatch(db, batch)] :
                        batch \in {push_batch(rpc_block, st, order)}} :
               st \in {push_stage(db, rpc_block)}} : TRUE

\* Db::push.  panic: get_utxo found no row for a cited input, and nothing was
\* written.  Otherwise db is the store after rocksdb.write(batch).
push(db, rpc_block, order) ==
    \* (the staging state and the batch are each bound once)
    CHOOSE r \in
        UNION {IF st.panic THEN {[panic |-> TRUE, db |-> db]}
               ELSE {[panic |-> FALSE, db |-> WriteBatch(db, batch)] :
                        batch \in {push_batch(rpc_block, st, order)}} :
               st \in {push_stage(db, rpc_block)}} : TRUE

\* ------------------------------------------------------------------ pop
\* The batch operation Db::pop stages for one undo entry.
pop_op(undo) ==
    CASE undo.tag = "UtxoPut" -> BatchPut("utxo", undo.arg.key, undo.arg)
      [] undo.tag = "UtxoDelete" -> BatchDelete("utxo", undo.arg)
      [] undo.tag = "UtxoKeyPut" -> BatchPut("utxo_key", undo.arg.vout, undo.arg)
      [] undo.tag = "UtxoKeyDelete" -> BatchDelete("utxo_key", undo.arg)
      [] undo.tag = "ScriptInfoPut" ->
           BatchPut("script_info", undo.arg.script, undo.arg)
      [] undo.tag = "ScriptInfoDelete" ->
           BatchDelete("script_info", undo.arg.script)

\* The batch Db::pop stages for the tip block and its BlockUndo row.
pop_batch(block, block_undo) ==
    <<BatchDelete("block", block.height),
      BatchDelete("block_undo", block_undo.height)>>
    \o [i \in 1..Len(block_undo.vec) |-> pop_op(block_undo.vec[i])]

\* Db::pop.  panic: peek() is None or the tip has no BlockUndo row.
\* Otherwise block is the tip row it returns, batch is the batch it staged,
\* and db is the store when it returns: the function returns `block` without
\* a rocksdb.write(batch), so the staged batch is dropped and the store is
\* the one it read.
pop(db) ==
    IF peek(db) = <<>> THEN [panic |-> TRUE, db |-> db]
    ELSE IF peek(db)[1].height \notin DOMAIN db.block_undo
    THEN [panic |-> TRUE, db |-> db]
    ELSE [panic |-> FALSE,
          block |-> peek(db)[1],
          batch |-> pop_batch(peek(db)[1], db.block_undo[peek(db)[1].height]),
          db |-> db]

\* ------------------------------------------------------------ key codec
\* u64::MAX.  No height of the model reaches it; it stands as the largest
\* integer the checker holds and serializes as 2^64 - 1 does.
U64_MAX == 2147483647

\* The n big-endian bytes of v.
BytesBE(v, n) == [i \in 1..n |-> (v \div (256 ^ (n - i))) % 256]

\* bincode::serialize of an unsigned integer under with_varint_encoding()
\* and with_big_endian(): one byte up to 250, else the marker 251, 252 or 253
\* and the 2, 4 or 8 bytes of the value.
serialize_u64(v) ==
    IF v = U64_MAX THEN <<253, 255, 255, 255, 255, 255, 255, 255, 255>>
    ELSE IF v <= 250 THEN <<v>>
    ELSE IF v <= 65535 THEN <<251>> \o BytesBE(v, 2)
    ELSE <<252>> \o BytesBE(v, 4)

\* The order of RocksDB's default (bytewise) comparator.
RECURSIVE BytesLessFrom(_, _, _)
BytesLessFrom(a, b, i) ==
    IF i > Len(b) THEN FALSE
    ELSE IF i > Len(a) THEN TRUE
    ELSE IF a[i] # b[i] THEN a[i] < b[i]
    ELSE BytesLessFrom(a, b, i + 1)

BytesLess(a, b) == BytesLessFrom(a, b, 1)

\* ---------------------------------------------------------- prune_until
\* prune_until as it would be with an inclusive upper bound.
prune_until_inclusive(db, height) ==
    LET gone == {h \in DOMAIN db.block : h <= height} IN
    [db EXCEPT !.block = [h \in (DOMAIN @) \ gone |-> @[h]],
               !.block_undo = [h \in (DOMAIN @) \ gone |-> @[h]]]

\* prune_until as it would be if it also dropped the outputs of the blocks
\* it prunes.
prune_until_drops_utxo(db, height) ==
    LET gone == {h \in DOMAIN db.block : h < height} IN
    [db EXCEPT !.block = [h \in (DOMAIN @) \ gone |-> @[h]],
               !.block_undo = [h \in (DOMAIN @) \ gone |-> @[h]],
               !.utxo = [k \in {x \in DOMAIN @ : x.height \notin gone} |-> @[k]]]

\* prune_until as it would be without the BlockUndo::batch_delete.
prune_until_keeps_undo(db, height) ==
    LET gone == {h \in DOMAIN db.block : h < height} IN
    [db EXCEPT !.block = [h \in (DOMAIN @) \ gone |-> @[h]]]

\* prune_until as it would be without the iterate_upper_bound.
prune_until_no_upper_bound(db, height) ==
    [db EXCEPT !.block = EmptyCF, !.block_undo = EmptyCF]

\* Db::prune_until: the Block rows whose encoded key lies between the encoded
\* bounds 0 (inclusive) and `height` (exclusive) are deleted, each together
\* with the BlockUndo row of the same key, one committed batch per row; the
\* store when the loop has ended.
prune_until(db, height) ==
    LET lower == serialize_u64(0)
        upper == serialize_u64(height)
        gone == {h \in DOMAIN db.block :
                    /\ ~BytesLess(serialize_u64(h), lower)
                    /\ BytesLess(serialize_u64(h), upper)}
    IN [db EXCEPT !.block = [h \in (DOMAIN @) \ gone |-> @[h]],
                  !.block_undo = [h \in (DOMAIN @) \ gone |-> @[h]]]

\* ------------------------------------------------------------- upstream
Range(f) == {f[i] : i \in DOMAIN f}

\* The amount of a coinbase output and of each half of a split payment.
Subsidy == <<1, 0>>
Half == <<5, 1>>

\* The txid of the i-th transaction of the block with hash `hash`.
Txid(hash, i) == hash * 4 + i

CoinbaseTx(hash, script) ==
    [txid |-> Txid(hash, 0),
     vin |-> <<[txid |-> None, vout |-> None]>>,
     vout |-> <<[n |-> 0, script_pub_key |-> script, value |-> Subsidy]>>]

\* A transaction that spends output u whole and pays script t.
PayTx(hash, u, t) ==
    [txid |-> Txid(hash, 1),
     vin |-> <<[txid |-> u.vout.txid, vout |-> u.vout.n]>>,
     vout |-> <<[n |-> 0, script_pub_key |-> t, value |-> u.value]>>]

\* A transaction that spends output u, pays half to t and returns the change.
SplitTx(hash, u, t) ==
    [txid |-> Txid(hash, 1),
     vin |-> <<[txid |-> u.vout.txid, vout |-> u.vout.n]>>,
     vout |-> <<[n |-> 0, script_pub_key |-> t, value |-> Half],
               [n |-> 1, script_pub_key |-> u.script, value |-> Half]>>]

\* A transaction that spends output 0 of PayTx in the same block.
ChainTx(hash, u) ==
    [txid |-> Txid(hash, 2),
     vin |-> <<[txid |-> Txid(hash, 1), vout |-> 0]>>,
     vout |-> <<[n |-> 0, script_pub_key |-> u.script, value |-> u.value]>>]

\* The outputs a block creates and the outputs its inputs cite.
Outputs(B) ==
    UNION {{[vout |-> [txid |-> tx.txid, n |-> o.n],
             script |-> o.script_pub_key,
             value |-> o.value,
             height |-> B.height] : o \in Range(tx.vout)} : tx \in Range(B.tx)}

Cited(B) ==
    UNION {{[txid |-> i.txid, n |-> i.vout] :
              i \in {j \in Range(tx.vin) : j.txid # None}} : tx \in Range(B.tx)}

\* The unspent outputs of a chain, given as the set of its blocks.
ChainUnspent(bs) ==
    {o \in UNION {Outputs(B) : B \in bs} :
        o.vout \notin UNION {Cited(B) : B \in bs}}

ActiveBlocks == {blocks[active[i]] : i \in 1..Len(active)}

\* What a wallet of the upstream node can spend: the unspent outputs of the
\* active chain above the genesis block.
Spendable == {o \in ChainUnspent(ActiveBlocks) : o.height > 0}

GenesisHash == 1

GenesisBlock ==
    [hash |-> GenesisHash, previousblockhash |-> None, height |-> 0,
     tx |-> <<CoinbaseTx(GenesisHash, Miner)>>]

\* The transactions after the coinbase of a mined block.
ExtraTxs(hash) ==
    {<<>>}
    \cup {<<PayTx(hash, u, t)>> : u \in Spendable, t \in Scripts}
    \cup {<<SplitTx(hash, u, t)>> :
             u \in {x \in Spendable : x.value = Subsidy}, t \in Scripts}
    \cup {<<PayTx(hash, u, t), ChainTx(hash, u)>> :
             u \in Spendable, t \in Scripts}

\* generatetoaddress 1: the node mines one block on its active tip.
Mine ==
    /\ Cardinality(DOMAIN blocks) <= MaxMined
    /\ LET hash == Cardinality(DOMAIN blocks) + 1 IN
       \E extra \in ExtraTxs(hash) :
          /\ blocks' = CFPut(blocks, hash,
                 [hash |-> hash,
                  previousblockhash |-> active[Len(active)],
                  height |-> Len(active),
                  tx |-> <<CoinbaseTx(hash, Miner)>> \o extra])
          /\ active' = Append(active, hash)
    /\ UNCHANGED <<rocksdb, pc, next, next_hash, sleeping, stop, synced,
                   popped, invalidated, restarts,
                   prune_call, reply, dec>>

\* generatetoaddress 1 with an empty mempool: a block of one coinbase.
MinePlain ==
    /\ Cardinality(DOMAIN blocks) <= MaxMinedPlain
    /\ LET hash == Cardinality(DOMAIN blocks) + 1 IN
       /\ blocks' = CFPut(blocks, hash,
              [hash |-> hash,
               previousblockhash |-> active[Len(active)],
               height |-> Len(active),
               tx |-> <<CoinbaseTx(hash, Miner)>>])
       /\ active' = Append(active, hash)
    /\ UNCHANGED <<rocksdb, pc, next, next_hash, sleeping, stop, synced,
                   popped, invalidated, restarts,
                   prune_call, reply, dec>>

\* invalidateblock: the block at height h and its descendants leave the
\* active chain; the node still serves them by hash.
Invalidate ==
    /\ invalidated < MaxInvalidate
    /\ \E h \in 1..(Len(active) - 1) : active' = SubSeq(active, 1, h)
    /\ invalidated' = invalidated + 1
    /\ UNCHANGED <<rocksdb, pc, next, next_hash, sleeping, stop, synced,
                   popped, blocks, restarts,
                   prune_call, reply, dec>>

\* ------------------------------------------- a long coinbase-only chain
\* The block at height h of the chain the upstream has when it only ever
\* mined coinbase-only blocks and never invalidated one (MinePlain from the
\* genesis block: the block at height h is the (h + 1)-th it knows).
PlainBlock(h) ==
    [hash |-> h + 1,
     previousblockhash |-> IF h = 0 THEN None ELSE h,
     height |-> h,
     tx |-> <<CoinbaseTx(h + 1, Miner)>>]

\* The rows Db::push writes for that chain: the ScriptInfo row of the miner
\* after n blocks, the Utxo key of the coinbase output of height h, and the
\* BlockUndo row of height h.
PlainInfo(n) ==
    [script |-> Miner, balance |-> <<n, 0>>, total_sent |-> ZeroDecimal,
     total_received |-> <<n, 0>>, tx_count |-> n]

PlainKey(h) ==
    [script |-> Miner, height |-> h,
     vout |-> [txid |-> Txid(h + 1, 0), n |-> 0]]

PlainUndo(h) ==
    [height |-> h,
     vec |-> <<IF h = 0 THEN Undo("ScriptInfoDelete", [script |-> Miner])
               ELSE Undo("ScriptInfoPut", PlainInfo(h)),
               Undo("UtxoDelete", PlainKey(h)),
               Undo("UtxoKeyDelete", PlainKey(h).vout)>>]

\* The store after the follower pushed the blocks 0..tip of that chain (no
\* prune has happened: tip < 2 * Retention - 1).
PlainDb(tip) ==
    [block |-> [h \in 0..tip |-> [height |-> h, hash |-> h + 1, prev_hash |-> h]],
     block_undo |-> [h \in 0..tip |-> PlainUndo(h)],
     utxo |-> [k \in {PlainKey(h) : h \in 0..tip} |->
                 [key |-> k, coinbase |-> TRUE, value |-> Subsidy]],
     utxo_key |-> [v \in {PlainKey(h).vout : h \in 0..tip} |->
                     PlainKey((v.txid \div 4) - 1)],
     script_info |-> [s \in {Miner} |-> PlainInfo(tip + 1)]]

\* generatetoaddress 1 on that chain.
MineHigh ==
    /\ Cardinality(DOMAIN blocks) < HighStart + 1 + MaxMinedHigh
    /\ LET hash == Cardinality(DOMAIN blocks) + 1 IN
       /\ blocks' = CFPut(blocks, hash,
              [hash |-> hash,
               previousblockhash |-> active[Len(active)],
               height |-> Len(active),
               tx |-> <<CoinbaseTx(hash, Miner)>>])
       /\ active' = Append(active, hash)
    /\ UNCHANGED <<rocksdb, pc, next, next_hash, sleeping, stop, synced,
                   popped, invalidated, restarts, prune_call, reply, dec>>

\* invalidateblock of one of the MaxReorgDepth highest blocks.
InvalidateRecent ==
    /\ invalidated < MaxInvalidate
    /\ \E h \in (Len(active) - MaxReorgDepth)..(Len(active) - 1) :
          /\ h >= 1
          /\ active' = SubSeq(active, 1, h)
    /\ invalidated' = invalidated + 1
    /\ UNCHANGED <<rocksdb, pc, next, next_hash, sleeping, stop, synced,
                   popped, blocks, restarts, prune_call, reply, dec>>

\* ------------------------------------------------------------- follower
\* Progress::genesis, Progress::for_next, Progress::for_fork
genesis == [height |-> 0, prev_hash |-> 0]
for_next(entry) == [height |-> entry.height + 1, prev_hash |-> entry.hash]
for_fork(entry) == [height |-> entry.height, prev_hash |-> entry.prev_hash]

\* connect as it would be without the comparison with next.prev_hash.
connect_any_parent(nxt, next_block) ==
    IF next_block.previousblockhash # None THEN "Connected"
    ELSE IF next_block.height # 0 THEN "panic" ELSE "Connected"

\* connect as it would be if a block without previousblockhash were taken
\* as connected at any height.
connect_headless_ok(nxt, next_block) ==
    IF next_block.previousblockhash # None
    THEN IF next_block.previousblockhash = nxt.prev_hash
         THEN "Connected" ELSE "Forked"
    ELSE "Connected"

\* connect, once get_blockhash and get_block have both succeeded.
connect(nxt, next_block) ==
    IF next_block.previousblockhash # None
    THEN IF next_block.previousblockhash = nxt.prev_hash
         THEN "Connected" ELSE "Forked"
    ELSE IF next_block.height # 0 THEN "panic" ELSE "Connected"

Init ==
    /\ rocksdb = EmptyDb
    /\ pc = "spawned"
    /\ next = genesis
    /\ next_hash = None
    /\ sleeping = FALSE
    /\ stop = FALSE
    /\ synced = "None"
    /\ popped = <<>>
    /\ blocks = CFPut(EmptyCF, GenesisHash, GenesisBlock)
    /\ active = <<GenesisHash>>
    /\ invalidated = 0
    /\ restarts = 0
    /\ prune_call = <<>>
    /\ reply = <<>>
    /\ dec = <<>>

\* The spawned task as it would start if it ignored the store: from the
\* genesis position, whatever has been indexed.
Start_from_genesis ==
    /\ pc = "spawned"
    /\ next' = genesis
    /\ sleeping' = FALSE
    /\ pc' = "loop"
    /\ UNCHANGED <<rocksdb, next_hash, stop, synced, popped, blocks, active,
                   invalidated, restarts,
                   prune_call, reply, dec>>

\* The first statements of the spawned task: next from db.peek().
Start ==
    /\ pc = "spawned"
    /\ next' = IF peek(rocksdb) = <<>> THEN genesis
               ELSE for_next(peek(rocksdb)[1])
    /\ sleeping' = FALSE
    /\ pc' = "loop"
    /\ UNCHANGED <<rocksdb, next_hash, stop, synced, popped, blocks, active,
                   invalidated, restarts,
                   prune_call, reply, dec>>

\* IndexHandle::stop
Stop ==
    /\ ~stop
    /\ pc \notin {"stopped", "panicked"}
    /\ stop' = TRUE
    /\ UNCHANGED <<rocksdb, pc, next, next_hash, sleeping, synced, popped,
                   blocks, active, invalidated, restarts,
                   prune_call, reply, dec>>

\* `while !stop_rx.has_changed()` fails: the loop ends, stop_rx.changed()
\* returns at once and the task ends.
ObserveStop ==
    /\ pc = "loop"
    /\ stop
    /\ pc' = "stopped"
    /\ UNCHANGED <<rocksdb, next, next_hash, sleeping, stop, synced, popped,
                   blocks, active, invalidated, restarts,
                   prune_call, reply, dec>>

\* now < sleep_until: sleep 100 ms and continue.  Time is not measured: the
\* yield may or may not end with sleep_until reached.
IdleYield ==
    /\ pc = "loop"
    /\ ~stop
    /\ sleeping
    /\ sleeping' \in BOOLEAN
    /\ UNCHANGED <<rocksdb, pc, next, next_hash, stop, synced, popped, blocks,
                   active, invalidated, restarts,
                   prune_call, reply, dec>>

\* The iteration below as it would be if the loop did not test the stop
\* flag.
Probe_ignores_stop ==
    /\ pc = "loop"
    /\ ~sleeping
    /\ rocksdb' = rocksdb
    /\ prune_call' = <<>>
    /\ pc' = "get_blockhash"
    /\ UNCHANGED <<next, next_hash, sleeping, stop, synced, popped, blocks,
                   active, invalidated, restarts, reply, dec>>

\* The iteration below as it would be if the retention rule looked at the
\* height of the indexed tip.
Probe_prunes_on_tip ==
    /\ pc = "loop"
    /\ ~stop
    /\ ~sleeping
    /\ LET tip == IF peek(rocksdb) = <<>> THEN 0 ELSE peek(rocksdb)[1].height
           rule == tip % Retention = 0 /\ tip > Retention
       IN /\ rocksdb' = IF rule THEN prune_until(rocksdb, tip - Retention)
                         ELSE rocksdb
          /\ prune_call' = IF rule THEN <<tip - Retention>> ELSE <<>>
    /\ pc' = "get_blockhash"
    /\ UNCHANGED <<next, next_hash, sleeping, stop, synced, popped, blocks,
                   active, invalidated, restarts, reply, dec>>

\* The iteration up to its first await: the retention rule, then
\* get_blockhash(next.height) is sent.
Probe ==
    /\ pc = "loop"
    /\ ~stop
    /\ ~sleeping
    /\ rocksdb' = IF next.height % Retention = 0 /\ next.height > Retention
                  THEN prune_until(rocksdb, next.height - Retention)
                  ELSE rocksdb
    /\ prune_call' = IF next.height % Retention = 0 /\ next.height > Retention
                     THEN <<next.height - Retention>>
                     ELSE <<>>
    /\ pc' = "get_blockhash"
    /\ UNCHANGED <<next, next_hash, sleeping, stop, synced, popped, blocks,
                   active, invalidated, restarts,
                   reply, dec>>

\* The Errored arm as it would be without `sleep_until = now + 5 s`.
Errored_no_sleep ==
    /\ synced' = "Errored"
    /\ sleeping' = FALSE
    /\ pc' = "loop"
    /\ next_hash' = None
    /\ UNCHANGED <<rocksdb, next, stop, popped, blocks, active, invalidated,
                   restarts,
                   prune_call, reply, dec>>

\* The Synced::Errored arm.
Errored ==
    /\ synced' = "Errored"
    /\ sleeping' = TRUE
    /\ pc' = "loop"
    /\ next_hash' = None
    /\ UNCHANGED <<rocksdb, next, stop, popped, blocks, active, invalidated,
                   restarts,
                   prune_call, reply, dec>>

\* getblockhash answers with the hash at next.height of the active chain.
GetBlockhashOk ==
    /\ pc = "get_blockhash"
    /\ next.height < Len(active)
    /\ next_hash' = active[next.height + 1]
    /\ pc' = "get_block"
    /\ UNCHANGED <<rocksdb, next, sleeping, stop, synced, popped, blocks,
                   active, invalidated, restarts,
                   prune_call, reply, dec>>

\* getblockhash for a height the active chain does not have, as it would be
\* if the step were classified Forked.
GetBlockhashNotFound_forks ==
    /\ pc = "get_blockhash"
    /\ next.height >= Len(active)
    /\ LET r == pop(rocksdb) IN
       IF r.panic
       THEN /\ pc' = "panicked"
            /\ UNCHANGED <<rocksdb, next, popped>>
       ELSE /\ rocksdb' = r.db
            /\ popped' = <<r.block>>
            /\ next' = for_fork(r.block)
            /\ pc' = "loop"
    /\ synced' = "Forked"
    /\ next_hash' = None
    /\ UNCHANGED <<sleeping, stop, blocks, active, invalidated,
                   restarts,
                   prune_call, reply, dec>>

\* getblockhash answers with an RPC error: the active chain has no block at
\* next.height.
GetBlockhashNotFound ==
    /\ pc = "get_blockhash"
    /\ next.height >= Len(active)
    /\ Errored

\* Either call fails in transport.
RpcFails ==
    /\ pc \in {"get_blockhash", "get_block"}
    /\ Errored

\* The Connected arm as it would be if next kept the parent hash it had.
Connected_keeps_prev_hash ==
    /\ pc = "get_block"
    /\ connect(next, blocks[next_hash]) \in {"Connected", "panic"}
    /\ LET rpc_block == blocks[next_hash] IN
       \E order \in Orders(DOMAIN push_stage(rocksdb, rpc_block).utxos) :
          LET pushed == push(rocksdb, rpc_block, order) IN
          IF connect(next, rpc_block) = "panic"
          THEN /\ pc' = "panicked"
               /\ UNCHANGED <<rocksdb, next, synced>>
          ELSE IF pushed.panic
          THEN /\ pc' = "panicked"
               /\ rocksdb' = pushed.db
               /\ UNCHANGED <<next, synced>>
          ELSE /\ rocksdb' = pushed.db
               /\ synced' = "Connected"
               /\ next' = [height |-> next.height + 1,
                           prev_hash |-> next.prev_hash]
               /\ pc' = "loop"
    /\ next_hash' = None
    /\ UNCHANGED <<sleeping, stop, popped, blocks, active, invalidated,
                   restarts,
                   prune_call, reply, dec>>

\* getblock answers and connect returns Connected: the Synced::Connected arm.
\* (connect panics on a block above height 0 without previousblockhash.)
Connected ==
    /\ pc = "get_block"
    /\ connect(next, blocks[next_hash]) \in {"Connected", "panic"}
    /\ LET rpc_block == blocks[next_hash] IN
       \E order \in Orders(DOMAIN push_stage(rocksdb, rpc_block).utxos) :
          LET pushed == push(rocksdb, rpc_block, order) IN
          IF connect(next, rpc_block) = "panic"
          THEN /\ pc' = "panicked"
               /\ UNCHANGED <<rocksdb, next, synced>>
          ELSE IF pushed.panic
          THEN /\ pc' = "panicked"
               /\ rocksdb' = pushed.db
               /\ UNCHANGED <<next, synced>>
          ELSE /\ rocksdb' = pushed.db
               /\ synced' = "Connected"
               /\ next' = [height |-> next.height + 1,
                           prev_hash |-> rpc_block.hash]
               /\ pc' = "loop"
    /\ next_hash' = None
    /\ UNCHANGED <<sleeping, stop, popped, blocks, active, invalidated,
                   restarts,
                   prune_call, reply, dec>>

\* getblock answers and connect returns Forked: the Synced::Forked arm.
Forked ==
    /\ pc = "get_block"
    /\ connect(next, blocks[next_hash]) = "Forked"
    /\ LET r == pop(rocksdb) IN
       IF r.panic
       THEN /\ pc' = "panicked"
            /\ UNCHANGED <<rocksdb, next, popped>>
       ELSE /\ rocksdb' = r.db
            /\ popped' = <<r.block>>
            /\ next' = for_fork(r.block)
            /\ pc' = "loop"
    /\ synced' = "Forked"
    /\ next_hash' = None
    /\ UNCHANGED <<sleeping, stop, blocks, active, invalidated,
                   restarts,
                   prune_call, reply, dec>>

\* The process ends (killed, or after the task stopped or panicked) and is
\* started again on the same database directory.
Restart ==
    /\ pc # "spawned"
    /\ restarts < MaxRestarts
    /\ restarts' = restarts + 1
    /\ pc' = "spawned"
    /\ stop' = FALSE
    /\ next' = genesis
    /\ next_hash' = None
    /\ sleeping' = FALSE
    /\ synced' = "None"
    /\ popped' = <<>>
    /\ UNCHANGED <<rocksdb, blocks, active, invalidated,
                   prune_call, reply, dec>>

Next ==
    \/ Mine
    \/ Invalidate
    \/ Start
    \/ Stop
    \/ ObserveStop
    \/ IdleYield
    \/ Probe
    \/ GetBlockhashOk
    \/ GetBlockhashNotFound
    \/ RpcFails
    \/ Connected
    \/ Forked
    \/ Restart

Spec == Init /\ [][Next]_vars

\* The follower started on the store it left after indexing the blocks
\* 0..HighStart of a coinbase-only chain, just below the height at which the
\* retention rule first fires.
InitHigh ==
    /\ rocksdb = PlainDb(HighStart)
    /\ pc = "spawned"
    /\ next = genesis
    /\ next_hash = None
    /\ sleeping = FALSE
    /\ stop = FALSE
    /\ synced = "None"
    /\ popped = <<>>
    /\ blocks = [hash \in 1..(HighStart + 1) |-> PlainBlock(hash - 1)]
    /\ active = [i \in 1..(HighStart + 1) |-> i]
    /\ invalidated = 0
    /\ restarts = 0
    /\ prune_call = <<>>
    /\ reply = <<>>
    /\ dec = <<>>

NextHigh ==
    \/ MineHigh
    \/ InvalidateRecent
    \/ Start
    \/ IdleYield
    \/ Probe
    \/ GetBlockhashOk
    \/ GetBlockhashNotFound
    \/ RpcFails
    \/ Connected
    \/ Forked

RetentionSpec == InitHigh /\ [][NextHigh]_vars

\* The follower left running (no stop, no restart) against an upstream of
\* coinbase-only blocks.  The task is scheduled whenever it can run, every
\* yield ends, and an upstream call that is retried forever succeeds in the
\* end.
NextLive ==
    \/ MinePlain
    \/ Invalidate
    \/ Start
    \/ IdleYield
    \/ Probe
    \/ GetBlockhashOk
    \/ GetBlockhashNotFound
    \/ RpcFails
    \/ Connected
    \/ Forked

LiveSpec ==
    /\ Init
    /\ [][NextLive]_vars
    /\ WF_vars(Start)
    /\ WF_vars(Probe)
    /\ WF_vars(IdleYield)
    /\ WF_vars(GetBlockhashNotFound)
    /\ SF_vars(GetBlockhashOk)
    /\ SF_vars(Connected)
    /\ SF_vars(Forked)

\* ------------------------------------------------- the indexed chain
\* The blocks whose rows the Block column family holds, with the content the
\* upstream served for them.
IndexedBlocks == {blocks[rocksdb.block[h].hash] : h \in DOMAIN rocksdb.block}

\* The rows of Utxo, in the shape of Outputs.
UtxoRowsOf(db) ==
    {[vout |-> k.vout, script |-> k.script, value |-> db.utxo[k].value,
      height |-> k.height] : k \in DOMAIN db.utxo}

UtxoRows == UtxoRowsOf(rocksdb)

\* tx_count of script s in store db; 0 without a row.
TxCountOf(db, s) ==
    IF s \in DOMAIN db.script_info THEN db.script_info[s].tx_count ELSE 0

\* The block `B` connects to the tip of store `db`, and push(B) finds every
\* input it cites.
Connects(db, B) ==
    /\ IF peek(db) = <<>> THEN B.height = 0
       ELSE /\ B.height = peek(db)[1].height + 1
            /\ B.previousblockhash = peek(db)[1].hash
    /\ ~push_stage(db, B).panic

\* A decimal's value at scale `scale` (>= its own).
AtScale(d, scale) == d[1] * Pow10(scale - d[2])

\* The outputs of the blocks `bs` that pay script s, and the inputs of `bs`
\* that spend an output paying s; one element per output and per input.
OutputTouches(bs, s) ==
    {<<b, t, o>> \in UNION {{B.hash} \X (DOMAIN B.tx) \X {1, 2} : B \in bs} :
        /\ o \in DOMAIN blocks[b].tx[t].vout
        /\ blocks[b].tx[t].vout[o].script_pub_key = s}

InputTouches(bs, s) ==
    {<<b, t, i>> \in UNION {{B.hash} \X (DOMAIN B.tx) \X {1} : B \in bs} :
        /\ blocks[b].tx[t].vin[i].txid # None
        /\ \E o \in UNION {Outputs(X) : X \in Range(blocks)} :
              /\ o.vout = [txid |-> blocks[b].tx[t].vin[i].txid,
                           n |-> blocks[b].tx[t].vin[i].vout]
              /\ o.script = s}

\* The store after the blocks with the given hashes are pushed in turn.
RECURSIVE Reindex(_, _)
Reindex(db, hashes) ==
    IF hashes = <<>> THEN db
    ELSE LET B == blocks[Head(hashes)]
             order == CHOOSE o \in Orders(DOMAIN push_stage(db, B).utxos) : TRUE
         IN Reindex(push(db, B, order).db, Tail(hashes))

\* peek() is the tip of the upstream's active chain.
AtUpstreamTip ==
    /\ peek(rocksdb) # <<>>
    /\ peek(rocksdb)[1].hash = active[Len(active)]

\* The upstream's active chain has a block above the indexed tip.
UpstreamAhead ==
    \/ peek(rocksdb) = <<>>
    \/ Len(active) - 1 > peek(rocksdb)[1].height

\* ---------------------------------------------------------------- claims

\* C1: for every store state S the follower reaches and every block B that
\* connects to the tip of S (with every cited input unspent in S or created
\* earlier in B), push(B) followed by pop() leaves the five column families
\* equal to S.
C1_PushPopInverse ==
    \A B \in Range(blocks) :
        Connects(rocksdb, B) =>
            \A order \in Orders(DOMAIN push_stage(rocksdb, B).utxos) :
                pop(push(rocksdb, B, order).db).db = rocksdb

\* C2: after pop() returned block P, the tip is the block at height
\* P.height - 1 or Block is empty, the Block and BlockUndo rows at P.height
\* are gone and no output created at P.height is left in Utxo or UtxoKey.
C2_PopRemovesTip ==
    (synced = "Forked" /\ pc # "panicked" /\ popped # <<>>) =>
        /\ \/ peek(rocksdb) = <<>>
           \/ peek(rocksdb)[1].height = popped[1].height - 1
        /\ popped[1].height \notin DOMAIN rocksdb.block
        /\ popped[1].height \notin DOMAIN rocksdb.block_undo
        /\ \A k \in DOMAIN rocksdb.utxo : k.height < popped[1].height
        /\ \A v \in DOMAIN rocksdb.utxo_key :
              rocksdb.utxo_key[v].height < popped[1].height

\* C3: once the follower is back at the upstream tip, also after the upstream
\* replaced indexed blocks, the ScriptInfo rows are those of indexing the
\* upstream's active chain from an empty store.
C3_ResyncMatchesReindex ==
    AtUpstreamTip =>
        rocksdb.script_info = Reindex(EmptyDb, active).script_info

\* C4: when the upstream has stopped changing, the follower ends up at the
\* upstream tip and stays there: from some point on, either peek() is the
\* upstream tip or the upstream has no block above the indexed tip to probe.
C4_EventuallyAtUpstreamTip == <>[](AtUpstreamTip \/ ~UpstreamAhead)

C6_UtxoKeyBijection ==
    /\ \A k \in DOMAIN rocksdb.utxo :
          /\ k.vout \in DOMAIN rocksdb.utxo_key
          /\ rocksdb.utxo_key[k.vout].height = k.height
          /\ rocksdb.utxo_key[k.vout].script = k.script
    /\ \A v \in DOMAIN rocksdb.utxo_key :
          Cardinality({k \in DOMAIN rocksdb.utxo :
                         /\ k.vout = v
                         /\ k.height = rocksdb.utxo_key[v].height
                         /\ k.script = rocksdb.utxo_key[v].script}) = 1

\* A block that spent a stored output and created two has been pushed, and a
\* pop has returned.
C6_Witness ==
    /\ popped # <<>>
    /\ Cardinality(DOMAIN rocksdb.utxo) >= 3
    /\ \E h \in DOMAIN rocksdb.block_undo :
          \E i \in DOMAIN rocksdb.block_undo[h].vec :
              rocksdb.block_undo[h].vec[i].tag = "UtxoKeyPut"

\* C7: the Utxo column family holds exactly the unspent outputs of the
\* indexed chain: the outputs created by the blocks of Block that no input of
\* a block of Block cites.
C7_UtxoIsUnspentSet == UtxoRows = ChainUnspent(IndexedBlocks)

\* C8: aggregate identity: for every script, balance = total_received -
\* total_sent (as decimal values, whatever the three scales).
C8_AggregateIdentity ==
    \A s \in DOMAIN rocksdb.script_info :
        LET info == rocksdb.script_info[s]
            scale == MaxOf(info.balance[2],
                           MaxOf(info.total_received[2], info.total_sent[2]))
        IN AtScale(info.balance, scale) =
              AtScale(info.total_received, scale)
                - AtScale(info.total_sent, scale)

\* A script has received and sent amounts of different scales, and a pop has
\* returned.
C8_Witness ==
    /\ popped # <<>>
    /\ \E s \in DOMAIN rocksdb.script_info :
          /\ rocksdb.script_info[s].total_sent[1] > 0
          /\ rocksdb.script_info[s].total_received[2]
                # rocksdb.script_info[s].total_sent[2]

\* All of the changes of push(B), and nothing else, between stores db and
\* db2: the Block and BlockUndo rows of B.height, every output of B that B
\* does not spend itself in Utxo and UtxoKey, every row B's inputs cite gone
\* from both, and the ScriptInfo row of every script touched by B counting
\* each touch.
PushedWhole(db, db2, B) ==
    /\ DOMAIN db2.block = DOMAIN db.block \cup {B.height}
    /\ db2.block[B.height].hash = B.hash
    /\ \A h \in DOMAIN db.block \ {B.height} : db2.block[h] = db.block[h]
    /\ DOMAIN db2.block_undo = DOMAIN db.block_undo \cup {B.height}
    /\ \A h \in DOMAIN db.block_undo \ {B.height} :
          db2.block_undo[h] = db.block_undo[h]
    /\ UtxoRowsOf(db2) =
          {o \in UtxoRowsOf(db) \cup Outputs(B) : o.vout \notin Cited(B)}
    /\ DOMAIN db2.utxo_key = {o.vout : o \in UtxoRowsOf(db2)}
    /\ \A v \in DOMAIN db2.utxo_key : db2.utxo_key[v] \in DOMAIN db2.utxo
    /\ \A s \in Scripts :
          TxCountOf(db2, s) = TxCountOf(db, s)
              + Cardinality(OutputTouches({B}, s))
              + Cardinality(InputTouches({B}, s))

\* C9: no partial block is observable: every change of the store a reader
\* can see is all of one push(B), or all of one pop(); a push or pop that
\* has not committed shows none of its changes.
C9_NoPartialBlock ==
    [][\/ rocksdb' = rocksdb
       \/ /\ pc = "get_block"
          /\ connect(next, blocks[next_hash]) = "Connected"
          /\ PushedWhole(rocksdb, rocksdb', blocks[next_hash])
       \/ /\ pc = "get_block"
          /\ connect(next, blocks[next_hash]) = "Forked"
          /\ ~pop(rocksdb).panic
          /\ rocksdb' = WriteBatch(rocksdb, pop(rocksdb).batch)]_vars

\* A block that spends a stored output has been pushed, and so has a block
\* that spends an output of its own, and a pop has returned.
C9_Witness ==
    /\ synced = "Connected"
    /\ popped # <<>>
    /\ \E h \in DOMAIN rocksdb.block_undo :
          \E i \in DOMAIN rocksdb.block_undo[h].vec :
              rocksdb.block_undo[h].vec[i].tag = "UtxoPut"
    /\ \E h \in DOMAIN rocksdb.block :
          Len(blocks[rocksdb.block[h].hash].tx) = 3

\* C10: for every script that has a ScriptInfo row, tx_count is the number
\* of outputs of the indexed chain that pay the script plus the number of
\* inputs of the indexed chain that spend one of its outputs; a script
\* without a row has no such output or input.
C10_TxCountIsTouches ==
    \A s \in Scripts :
        Cardinality(OutputTouches(IndexedBlocks, s))
          + Cardinality(InputTouches(IndexedBlocks, s))
        = IF s \in DOMAIN rocksdb.script_info
          THEN rocksdb.script_info[s].tx_count ELSE 0

\* The output an undo entry of a Utxo or UtxoKey row is about, as a set;
\* empty for the ScriptInfo entries.
UndoVout(undo) ==
    CASE undo.tag = "UtxoPut" -> {undo.arg.key.vout}
      [] undo.tag = "UtxoDelete" -> {undo.arg.vout}
      [] undo.tag = "UtxoKeyPut" -> {undo.arg.vout}
      [] undo.tag = "UtxoKeyDelete" -> {undo.arg}
      [] OTHER -> {}

\* C11: within-block spend: an output that a transaction of indexed block H
\* creates and a later transaction of H spends has no Utxo row and no UtxoKey
\* row, and BlockUndo[H] has no UtxoPut, UtxoKeyPut, UtxoDelete or
\* UtxoKeyDelete entry for it.
C11_WithinBlockSpend ==
    \A h \in DOMAIN rocksdb.block :
        LET B == blocks[rocksdb.block[h].hash] IN
        \A o \in Outputs(B) :
            o.vout \in Cited(B) =>
                /\ o.vout \notin DOMAIN rocksdb.utxo_key
                /\ \A k \in DOMAIN rocksdb.utxo : k.vout # o.vout
                /\ \A i \in DOMAIN rocksdb.block_undo[h].vec :
                      o.vout \notin UndoVout(rocksdb.block_undo[h].vec[i])

\* A block whose third transaction spends an output of its second has been
\* pushed.
C11_Witness ==
    \E h \in DOMAIN rocksdb.block :
        /\ h \in DOMAIN rocksdb.block_undo
        /\ \E o \in Outputs(blocks[rocksdb.block[h].hash]) :
              o.vout \in Cited(blocks[rocksdb.block[h].hash])

\* A step of the follower that calls prune_until.
PruneStep == pc = "loop" /\ pc' = "get_blockhash" /\ prune_call' # <<>>

\* C12: prune_until(h) removes every Block row and every BlockUndo row of
\* height < h, and no Block or BlockUndo row of height >= h.
C12_PruneRemovesBelow ==
    [][PruneStep =>
         \A h \in {prune_call'[1]} :
            /\ DOMAIN rocksdb'.block = {x \in DOMAIN rocksdb.block : x >= h}
            /\ DOMAIN rocksdb'.block_undo
                 = {x \in DOMAIN rocksdb.block_undo : x >= h}
            /\ \A x \in DOMAIN rocksdb'.block :
                  rocksdb'.block[x] = rocksdb.block[x]
            /\ \A x \in DOMAIN rocksdb'.block_undo :
                  rocksdb'.block_undo[x] = rocksdb.block_undo[x]]_vars

\* The follower has called prune_until(h) on a store with rows below and
\* above h: the rows from h on are left.
C12_Witness ==
    /\ prune_call # <<>>
    /\ 0 \notin DOMAIN rocksdb.block
    /\ prune_call[1] \in DOMAIN rocksdb.block
    /\ prune_call[1] \in DOMAIN rocksdb.block_undo

\* C13: prune safety: prune_until(h) leaves Utxo, UtxoKey and ScriptInfo as
\* they are.
C13_PruneKeepsUtxo ==
    [][PruneStep =>
         /\ rocksdb'.utxo = rocksdb.utxo
         /\ rocksdb'.utxo_key = rocksdb.utxo_key
         /\ rocksdb'.script_info = rocksdb.script_info]_vars

\* The follower has pruned, and the outputs of pruned blocks are listed.
C13_Witness ==
    /\ prune_call # <<>>
    /\ \E k \in DOMAIN rocksdb.utxo :
          /\ k.height \notin DOMAIN rocksdb.block
          /\ k.vout \in DOMAIN rocksdb.utxo_key
    /\ rocksdb.script_info[Miner].tx_count > 2 * Retention - 1

\* A main step: the step from the loop's head to the first upstream call.
MainStep == pc = "loop" /\ pc' = "get_blockhash"

\* C14: retention contract, as the claim words it: on every main step with
\* the indexed tip at a height tip = 0 (mod 10000), tip > 10000, the
\* follower calls prune_until(tip - 10000).
C14_PruneOnTip ==
    [][(/\ MainStep
        /\ peek(rocksdb) # <<>>
        /\ peek(rocksdb)[1].height % 10000 = 0
        /\ peek(rocksdb)[1].height > 10000)
          => prune_call' = <<peek(rocksdb)[1].height - 10000>>]_vars

\* C14, amended: the rule looks at next.height, the height the step is
\* about to ask the upstream for (tip + 1 after a push): on a main step the
\* follower calls prune_until(next.height - 10000) if next.height = 0
\* (mod 10000) and next.height > 10000, and makes no call otherwise; after
\* the call no Block or BlockUndo row below next.height - 10000 is left.
C14_PruneOnNext ==
    [][MainStep =>
         IF next.height % 10000 = 0 /\ next.height > 10000
         THEN /\ prune_call' = <<next.height - 10000>>
              /\ \A h \in DOMAIN rocksdb'.block \cup DOMAIN rocksdb'.block_undo :
                    h >= next.height - 10000
         ELSE /\ prune_call' = <<>>
              /\ rocksdb' = rocksdb]_vars

\* A main step has called prune_until with the tip one below a multiple of
\* 10000.
C14_Witness ==
    /\ pc = "get_blockhash"
    /\ prune_call # <<>>
    /\ next.height = prune_call[1] + Retention
    /\ peek(rocksdb)[1].height = next.height - 1

\* C15, as the claim words it: BlockUndo[h] exists iff Block[h] exists and
\* h > tip - retention.
C15_UndoIffRetained ==
    peek(rocksdb) # <<>> =>
        \A h \in DOMAIN rocksdb.block \cup DOMAIN rocksdb.block_undo :
            h \in DOMAIN rocksdb.block_undo
              <=> (/\ h \in DOMAIN rocksdb.block
                   /\ h > peek(rocksdb)[1].height - Retention)

\* C15, amended: BlockUndo[h] exists iff Block[h] exists; rows at or below
\* tip - retention stay until the next call of prune_until, which removes
\* the two rows of a height together.
C15_UndoIffBlock ==
    DOMAIN rocksdb.block_undo = DOMAIN rocksdb.block

\* The follower has pruned and indexed on: the two rows of height 10000 are
\* there with the tip at 20000 or above.
C15_Witness ==
    /\ peek(rocksdb) # <<>>
    /\ peek(rocksdb)[1].height >= 2 * Retention
    /\ Retention \in DOMAIN rocksdb.block_undo
    /\ (Retention - 1) \notin DOMAIN rocksdb.block

\* C16: every height h >= 0 with tip - 10000 < h <= tip has its Block row
\* and its BlockUndo row, and pop() finds the BlockUndo row of the tip.
C16_HorizonKept ==
    \A tip \in {b.height : b \in {peek(rocksdb)[i] : i \in DOMAIN peek(rocksdb)}} :
        /\ \A h \in (IF tip >= 10000 THEN tip - 9999 ELSE 0)..tip :
              /\ h \in DOMAIN rocksdb.block
              /\ h \in DOMAIN rocksdb.block_undo
        /\ ~pop(rocksdb).panic

\* After a prune, the follower has taken the Forked arm and pop() has
\* returned the tip.
C16_Witness ==
    /\ synced = "Forked"
    /\ popped # <<>>
    /\ pc = "loop"
    /\ 0 \notin DOMAIN rocksdb.block

\* ------------------------------------------------------------------ stop
\* The task has ended: the loop was left and stop_rx dropped, or a panic
\* unwound the task.  Sender::closed(), which stopped() awaits, resolves when
\* the task's receiver, the only one, has been dropped.
Terminated == pc \in {"stopped", "panicked"}

\* `connect(&next, &rpc_client).await` returns: the upstream, or the
\* transport, answers the call in flight.
RpcReturns ==
    \/ GetBlockhashOk
    \/ GetBlockhashNotFound
    \/ RpcFails
    \/ Connected
    \/ Forked

\* One run of the follower from an empty store, with stop().
NextStop ==
    \/ MinePlain
    \/ Invalidate
    \/ Start
    \/ Stop
    \/ ObserveStop
    \/ IdleYield
    \/ Probe
    \/ GetBlockhashOk
    \/ GetBlockhashNotFound
    \/ RpcFails
    \/ Connected
    \/ Forked

\* The runtime schedules the task, and every upstream call in flight
\* returns.
StopSpec ==
    /\ Init
    /\ [][NextStop]_vars
    /\ WF_vars(Start)
    /\ WF_vars(ObserveStop)
    /\ WF_vars(RpcReturns)

\* The runtime schedules the task; nothing is assumed of the upstream.
StopHangSpec ==
    /\ Init
    /\ [][NextStop]_vars
    /\ WF_vars(Start)
    /\ WF_vars(ObserveStop)
    /\ WF_vars(Probe)
    /\ WF_vars(IdleYield)

\* C17: cooperative stop: once stop() has been called the follower starts
\* no new iteration; the loop is left only at its head, so a change of the
\* store made after stop() is the whole of the push in flight and a pop in
\* flight runs to its return; the ended task writes nothing; and, every call
\* in flight returning, stop() leads to the end of the task, which is when
\* stopped() resolves.
C17_CooperativeStop ==
    /\ [][/\ stop => ~MainStep
          /\ (pc' = "stopped" /\ pc # "stopped")
                => (pc = "loop" /\ stop /\ rocksdb' = rocksdb)
          /\ Terminated => (rocksdb' = rocksdb /\ pc' = pc)
          /\ (stop /\ rocksdb' # rocksdb)
                => /\ pc = "get_block"
                   /\ pc' = "loop"
                   /\ PushedWhole(rocksdb, rocksdb', blocks[next_hash])
          /\ (stop /\ pc = "get_block" /\ pc' = "loop" /\ synced' = "Forked")
                => popped' = <<pop(rocksdb).block>>]_vars
    /\ (stop ~> Terminated)

\* The task has ended on stop() with blocks indexed and the upstream still
\* ahead of the indexed tip.
C17_Witness ==
    /\ stop
    /\ pc = "stopped"
    /\ peek(rocksdb) # <<>>
    /\ Len(active) - 1 > peek(rocksdb)[1].height

\* C18: stop() with getblockhash or getblock in flight cancels the call:
\* the task ends whether or not the upstream answers.
C18_StopCancelsRpc ==
    (stop /\ pc \in {"get_blockhash", "get_block"}) ~> Terminated

\* ------------------------------------------------------------ Utxo keys
\* The bytes of the scripts: script 1 is a byte prefix of script 2, and
\* script 2 of script 3, which no block pays.
UnpaidScript == 3

script_bytes(s) ==
    CASE s = 1 -> <<81>>
      [] s = 2 -> <<81, 172>>
      [] OTHER -> <<81, 172, 1>>

\* The 32 bytes of a U256 (txids of the model are below 2^31).
U256Bytes(v) == [i \in 1..28 |-> 0] \o BytesBE(v, 4)

\* bincode::serialize of a byte slice: its length, then its bytes.
serialize_bytes(b) == serialize_u64(Len(b)) \o b

\* bincode::serialize(&(script, bound)): a scan bound.
serialize_script_height(script, height) ==
    serialize_bytes(script_bytes(script)) \o serialize_u64(height)

\* bincode::serialize of a UtxoKey: script, height, vout.txid, vout.n.
serialize_utxo_key(k) ==
    serialize_script_height(k.script, k.height)
        \o U256Bytes(k.vout.txid) \o serialize_u64(k.vout.n)

\* The "ScriptPrefix" slice transform of the utxo column family: the
\* length-prefixed script at the head of a key.
ScriptPrefix(key) ==
    IF key[1] <= 250 THEN SubSeq(key, 1, key[1] + 1)
    ELSE IF key[1] = 251 THEN SubSeq(key, 1, 3 + key[2] * 256 + key[3])
    ELSE <<"panic">>

\* The order a RocksDB iterator yields rows in: the rows of a set of
\* <<key bytes, row>> pairs by ascending key bytes.
SortByKey(S) ==
    \* (the set and the ranks of its rows are each bound once)
    CHOOSE f \in
        UNION {{[i \in 1..Cardinality(T) |-> (CHOOSE p \in R : p[1] = i)[2]] :
                   R \in {{<<Cardinality({x \in T : BytesLess(x[1], e[1])}) + 1,
                             e[2]>> : e \in T}}} :
               T \in {S}} : TRUE

\* The rows a forward iterator over the utxo column family yields from the
\* key `from` (inclusive) to the key `upper` (exclusive; <<>> for none), as
\* pairs <<key bytes, row>>.
UtxoFrom(db, from, upper) ==
    LET enc == {<<serialize_utxo_key(k), db.utxo[k]>> : k \in DOMAIN db.utxo}
    IN {e \in enc : /\ ~BytesLess(e[1], from)
                    /\ upper = <<>> \/ BytesLess(e[1], upper[1])}

\* prefix_same_as_start: of the rows from the seek key on, those before
\* the first whose ScriptPrefix is not that of the seek key.
SamePrefixRun(rows, prefix) ==
    LET same == {e \in rows : ScriptPrefix(e[1]) = ScriptPrefix(prefix)}
        others == rows \ same
    IN {e \in same : \A x \in others : BytesLess(e[1], x[1])}

\* iterator_script_utxo as it would be without set_prefix_same_as_start.
iterator_script_utxo_any_prefix(db, script, lower, upper) ==
    LET prefix == serialize_bytes(script_bytes(script))
    IN SortByKey(UtxoFrom(db, prefix, <<>>))

\* Db::iterator_script_utxo(script, lower..upper), collected: the iterator
\* seeks to the serialized script (or to the lower bound, when that is
\* above it), and yields rows in key order while the key is below the upper
\* bound and has the ScriptPrefix of the seek key.  `lower` and `upper` are
\* <<>> for None, <<h>> for Some(h).
iterator_script_utxo(db, script, lower, upper) ==
    LET prefix == serialize_bytes(script_bytes(script))
        lkey == IF lower = <<>> THEN prefix
                ELSE serialize_script_height(script, lower[1])
        from == IF BytesLess(prefix, lkey) THEN lkey ELSE prefix
        ukey == IF upper = <<>> THEN <<>>
                ELSE <<serialize_script_height(script, upper[1])>>
    IN SortByKey(SamePrefixRun(UtxoFrom(db, from, ukey), prefix))

\* -------------------------------------------------------- query surface
\* MAX_COUNT of service.rs, where the environment does not set it.
MAX_COUNT == 100

\* `lower_bound` of listunspent: Option<u64>, <<>> for None.  checked_sub
\* is None where maxconf is above the height of the tip.
lower_bound(block_tip, maxconf) ==
    IF maxconf = None THEN <<>>
    ELSE IF block_tip.height >= maxconf
    THEN <<block_tip.height - maxconf + 1>>
    ELSE <<U64_MAX>>

\* `upper_bound` of listunspent (u64::MIN is 0).
upper_bound(block_tip, minconf) ==
    IF minconf = None THEN <<>>
    ELSE IF block_tip.height >= minconf
    THEN <<block_tip.height - minconf + 2>>
    ELSE <<0>>

\* listunspent(address, query_options) of OxtuRpcServer on store db; the
\* three options are None where the request leaves them out.  The call
\* panics on a store without a block.
listunspent(db, address, minconf, maxconf, count) ==
    IF peek(db) = <<>> THEN [panic |-> TRUE, utxos |-> <<>>]
    ELSE
    LET block_tip == peek(db)[1]
        utxo_iterator ==
            iterator_script_utxo(db, address,
                                 lower_bound(block_tip, maxconf),
                                 upper_bound(block_tip, minconf))
        cnt == IF count # None /\ count <= MAX_COUNT THEN count ELSE MAX_COUNT
        taken == IF Len(utxo_iterator) <= cnt THEN utxo_iterator
                 ELSE SubSeq(utxo_iterator, 1, cnt)
    IN [panic |-> FALSE,
        utxos |-> [i \in 1..Len(taken) |->
                     [txid |-> taken[i].key.vout.txid,
                      vout |-> taken[i].key.vout.n,
                      address |-> address,
                      script_pub_key |-> address,
                      amount |-> taken[i].value,
                      confirmations |-> block_tip.height - taken[i].key.height + 1,
                      height |-> taken[i].key.height,
                      coinbase |-> taken[i].coinbase]]]

\* From<U128Decimal> for BigDecimal: BigDecimal::new(mantissa, scale).
BigDecimal(value) == [int_val |-> value[1], scale |-> value[2]]

\* getaddressinfo(address) of OxtuRpcServer on store db: the ScriptInfo row
\* of the script, or the row of zeros where there is none.
getaddressinfo(db, address) ==
    LET info == IF address \in DOMAIN db.script_info
                THEN db.script_info[address]
                ELSE [script |-> <<>>, balance |-> ZeroDecimal,
                      total_sent |-> ZeroDecimal,
                      total_received |-> ZeroDecimal, tx_count |-> 0]
    IN [address |-> address,
        balance |-> BigDecimal(info.balance),
        total_sent |-> BigDecimal(info.total_sent),
        total_received |-> BigDecimal(info.total_received),
        tx_count |-> info.tx_count]

\* QuerySpec: the height of the indexed tip of the coinbase-only chain the
\* run builds on, and the blocks indexed above it.
QueryBase == 249
QueryMined == 2

\* What the node's wallet does before each of those blocks is mined: nothing,
\* or send_to_address of the coinbase output of the block below, whole or
\* half of it, to script 2.
QueryChoices == {"plain", "pay", "split"}

\* The block at height h of such a chain.
QueryBlock(h, choice) ==
    LET hash == h + 1
        u == [vout |-> [txid |-> Txid(h, 0), n |-> 0], script |-> Miner,
              value |-> Subsidy, height |-> h - 1]
    IN [hash |-> hash,
        previousblockhash |-> h,
        height |-> h,
        tx |-> <<CoinbaseTx(hash, Miner)>>
                 \o (CASE choice = "plain" -> <<>>
                       [] choice = "pay" -> <<PayTx(hash, u, 2)>>
                       [] choice = "split" -> <<SplitTx(hash, u, 2)>>)]

\* The store after the follower pushed the blocks up to height
\* QueryBase + i of such a chain.
RECURSIVE QueryDb(_, _)
QueryDb(choices, i) ==
    IF i = 0 THEN PlainDb(QueryBase)
    ELSE CHOOSE d \in
           {push(db, B, CHOOSE o \in Orders(DOMAIN push_stage(db, B).utxos) : TRUE).db :
               db \in {QueryDb(choices, i - 1)},
               B \in {QueryBlock(QueryBase + i, choices[i])}} : TRUE

\* The request options the clients send.
QueryMinconf == {None, 1, 2, QueryBase + QueryMined + 1}
QueryMaxconf == {None, 2, QueryBase + QueryMined + 1, 9999999}
QueryCount == {None, 2, MAX_COUNT + 1}

\* The follower has indexed such a chain and is at its tip.
InitQuery ==
    \E choices \in [1..QueryMined -> QueryChoices] :
        /\ rocksdb = QueryDb(choices, QueryMined)
        /\ blocks = [hash \in 1..(QueryBase + QueryMined + 1) |->
                        IF hash <= QueryBase + 1 THEN PlainBlock(hash - 1)
                        ELSE QueryBlock(hash - 1, choices[hash - 1 - QueryBase])]
        /\ active = [i \in 1..(QueryBase + QueryMined + 1) |-> i]
        /\ pc = "spawned"
        /\ next = genesis
        /\ next_hash = None
        /\ sleeping = FALSE
        /\ stop = FALSE
        /\ synced = "None"
        /\ popped = <<>>
        /\ invalidated = 0
        /\ restarts = 0
        /\ prune_call = <<>>
        /\ reply = <<>>
    /\ dec = <<>>

\* A reader collects db.iterator_script_utxo(script, None..None).  (A reply
\* depends on the store only, which no action of QuerySpec changes: each run
\* answers one request.)
ListUtxos ==
    /\ reply = <<>>
    /\ \E script \in Scripts \cup {UnpaidScript} :
          reply' = <<[method |-> "iterator_script_utxo",
                      script |-> script,
                      rows |-> iterator_script_utxo(rocksdb, script, <<>>, <<>>)]>>
    /\ UNCHANGED <<rocksdb, pc, next, next_hash, sleeping, stop, synced,
                   popped, blocks, active, invalidated, restarts, prune_call,
                   dec>>

\* A client calls listunspent.
ListUnspent ==
    /\ reply = <<>>
    /\ \E address \in Scripts, minconf \in QueryMinconf,
          maxconf \in QueryMaxconf, count \in QueryCount :
          reply' = <<[method |-> "listunspent",
                      address |-> address,
                      minconf |-> minconf,
                      maxconf |-> maxconf,
                      count |-> count,
                      result |-> listunspent(rocksdb, address, minconf,
                                             maxconf, count)]>>
    /\ UNCHANGED <<rocksdb, pc, next, next_hash, sleeping, stop, synced,
                   popped, blocks, active, invalidated, restarts, prune_call,
                   dec>>

\* A client calls getaddressinfo.
GetAddressInfo ==
    /\ reply = <<>>
    /\ \E address \in Scripts \cup {UnpaidScript} :
          reply' = <<[method |-> "getaddressinfo",
                      address |-> address,
                      result |-> getaddressinfo(rocksdb, address)]>>
    /\ UNCHANGED <<rocksdb, pc, next, next_hash, sleeping, stop, synced,
                   popped, blocks, active, invalidated, restarts, prune_call,
                   dec>>

NextQuery ==
    \/ ListUtxos
    \/ ListUnspent
    \/ GetAddressInfo

QuerySpec == InitQuery /\ [][NextQuery]_vars

\* The requests answered so far, at most one.
Replies(method) == {r \in Range(reply) : r.method = method}

\* (height, txid, n) of row a is below that of row b.
KeyBelow(a, b) ==
    \/ a.height < b.height
    \/ a.height = b.height /\ a.vout.txid < b.vout.txid
    \/ a.height = b.height /\ a.vout.txid = b.vout.txid /\ a.vout.n < b.vout.n

\* C19: prefix-scan completeness: iterator_script_utxo(s, None..None) yields
\* every Utxo row whose script is s, each once, no row of another script
\* (s is a byte prefix of another script, or extends one), in ascending
\* (height, txid, n) order.
C19_PrefixScanComplete ==
    \A r \in Replies("iterator_script_utxo") :
        /\ Range(r.rows) =
              {rocksdb.utxo[k] : k \in {x \in DOMAIN rocksdb.utxo :
                                           x.script = r.script}}
        /\ \A i \in 1..(Len(r.rows) - 1) :
              KeyBelow(r.rows[i].key, r.rows[i + 1].key)

\* The scan of script 1, a byte prefix of script 2, has been answered from
\* a store that holds rows of both on each side of height 250/251, where
\* the encoding of the height grows from one byte to three.
C19_Witness ==
    \E r \in Replies("iterator_script_utxo") :
        /\ r.script = 1
        /\ Len(r.rows) > MAX_COUNT
        /\ \E i \in DOMAIN r.rows : r.rows[i].key.height = 250
        /\ \E i \in DOMAIN r.rows : r.rows[i].key.height = 251
        /\ \E k \in DOMAIN rocksdb.utxo : k.script = 2 /\ k.height = 250
        /\ \E k \in DOMAIN rocksdb.utxo : k.script = 2 /\ k.height = 251

\* The unspent outputs of `address` whose confirmations lie in the window
\* of a listunspent request.
InWindow(r) ==
    {k \in DOMAIN rocksdb.utxo :
        \A conf \in {peek(rocksdb)[1].height - k.height + 1} :
            /\ k.script = r.address
            /\ r.minconf = None \/ r.minconf <= conf
            /\ r.maxconf = None \/ conf <= r.maxconf}

\* C20: listunspent(address, {minconf, maxconf, count}) returns at most
\* count entries, each an unspent output of the address with
\* minconf <= confirmations <= maxconf, and all of those when they are
\* fewer than count, whatever the tip, minconf and maxconf.
C20_ListUnspentWindow ==
    \A r \in Replies("listunspent") :
        \A window \in {InWindow(r)} :
            LET got == {[script |-> e.script_pub_key, height |-> e.height,
                         vout |-> [txid |-> e.txid, n |-> e.vout]] :
                           e \in Range(r.result.utxos)}
            IN /\ ~r.result.panic
               /\ got \subseteq window
               /\ \A e \in Range(r.result.utxos) :
                     e.confirmations = peek(rocksdb)[1].height - e.height + 1
               /\ \A cnt \in {IF r.count = None THEN MAX_COUNT ELSE r.count} :
                     /\ Len(r.result.utxos) <= cnt
                     /\ Cardinality(window) < cnt => got = window

\* a - b, or 0 where b is above a.
Saturating(a, b) == IF a >= b THEN a - b ELSE 0

\* C21: listunspent computes lower_height = saturating(tip - maxconf) + 1
\* when maxconf is present (1 when maxconf is above the tip), and no lower
\* bound when it is absent.
C21_LowerHeight ==
    \A r \in Replies("listunspent") :
        \A block_tip \in Range(peek(rocksdb)) :
            lower_bound(block_tip, r.maxconf) =
                IF r.maxconf = None THEN <<>>
                ELSE <<Saturating(block_tip.height, r.maxconf) + 1>>

\* C22: listunspent computes upper_height = saturating(tip - minconf) + 2
\* when minconf is present (2 when minconf is above the tip), and no upper
\* bound when it is absent.
C22_UpperHeight ==
    \A r \in Replies("listunspent") :
        \A block_tip \in Range(peek(rocksdb)) :
            upper_bound(block_tip, r.minconf) =
                IF r.minconf = None THEN <<>>
                ELSE <<Saturating(block_tip.height, r.minconf) + 2>>

\* ---------------------------------------------- a payment, then a reorg
\* The upstream has mined two blocks on the genesis block, the second with a
\* payment of the first one's coinbase output to script 2, which nothing
\* else pays.
PaidBlocks ==
    LET u == [vout |-> [txid |-> Txid(2, 0), n |-> 0], script |-> Miner,
              value |-> Subsidy, height |-> 1]
    IN (1 :> GenesisBlock)
       @@ (2 :> [hash |-> 2, previousblockhash |-> 1, height |-> 1,
                 tx |-> <<CoinbaseTx(2, Miner)>>])
       @@ (3 :> [hash |-> 3, previousblockhash |-> 2, height |-> 2,
                 tx |-> <<CoinbaseTx(3, Miner), PayTx(3, u, 2)>>])

\* The follower has indexed the three blocks and is back at the head of its
\* loop.
InitPaid ==
    /\ blocks = PaidBlocks
    /\ active = <<1, 2, 3>>
    /\ \E db1 \in {Reindex(EmptyDb, <<1>>)} :
       \E db2 \in {Reindex(db1, <<2>>)} :
          rocksdb = Reindex(db2, <<3>>)
    /\ pc = "loop"
    /\ next = [height |-> 3, prev_hash |-> 3]
    /\ next_hash = None
    /\ sleeping = FALSE
    /\ stop = FALSE
    /\ synced = "Connected"
    /\ popped = <<>>
    /\ invalidated = 0
    /\ restarts = 0
    /\ prune_call = <<>>
    /\ reply = <<>>
    /\ dec = <<>>

\* generatetoaddress 1 from there, with at most one payment in the mempool.
MinePaid ==
    /\ Cardinality(DOMAIN blocks) <= MaxMinedPaid
    /\ LET hash == Cardinality(DOMAIN blocks) + 1 IN
       \E extra \in {<<>>} \cup {<<PayTx(hash, u, t)>> :
                                   u \in Spendable, t \in Scripts} :
          /\ blocks' = CFPut(blocks, hash,
                 [hash |-> hash,
                  previousblockhash |-> active[Len(active)],
                  height |-> Len(active),
                  tx |-> <<CoinbaseTx(hash, Miner)>> \o extra])
          /\ active' = Append(active, hash)
    /\ UNCHANGED <<rocksdb, pc, next, next_hash, sleeping, stop, synced,
                   popped, invalidated, restarts,
                   prune_call, reply, dec>>

\* From there the upstream mines and invalidates, and the process may be
\* started again.
NextPaid ==
    \/ MinePaid
    \/ Invalidate
    \/ Start
    \/ IdleYield
    \/ Probe
    \/ GetBlockhashOk
    \/ GetBlockhashNotFound
    \/ RpcFails
    \/ Connected
    \/ Forked
    \/ Restart

PaidSpec == InitPaid /\ [][NextPaid]_vars

\* The answer of getaddressinfo for a script without a row.
ZeroAddressInfo(address) ==
    [address |-> address,
     balance |-> BigDecimal(ZeroDecimal),
     total_sent |-> BigDecimal(ZeroDecimal),
     total_received |-> BigDecimal(ZeroDecimal),
     tx_count |-> 0]

\* No block of bs pays script s or spends an output that pays it.
Untouched(bs, s) ==
    /\ OutputTouches(bs, s) = {}
    /\ InputTouches(bs, s) = {}

\* C23: getaddressinfo answers with balance, total_sent, total_received and
\* tx_count all zero for a script that has no ScriptInfo row, and a script
\* is without a row when the indexed chain never touched it or when the
\* only block that touched it has been popped.
C23_AbsentScriptZeros ==
    \A s \in Scripts \cup {UnpaidScript} :
        /\ s \notin DOMAIN rocksdb.script_info
              => getaddressinfo(rocksdb, s) = ZeroAddressInfo(s)
        /\ (/\ pc = "loop"
            /\ synced = "Forked"
            /\ popped # <<>>
            /\ Untouched(IndexedBlocks \ {blocks[popped[1].hash]}, s))
              => getaddressinfo(rocksdb, s) = ZeroAddressInfo(s)

\* ------------------------------------------------- U128Decimal arithmetic
\* The mantissas and scales the operands are drawn from: small ones, ones
\* whose rescaling by 10 just fits or just does not, and the largest; scale
\* differences up to one whose power of ten is itself too large.
Mantissas == {0, 1, 5, U128_MAX \div 10, U128_MAX \div 10 + 1, U128_MAX}

Scales == {0, 1, 2, 5}

\* A U128Decimal a and a right-hand side b, before `a += b; a -= b`.
InitDecimal ==
    /\ rocksdb = EmptyDb
    /\ pc = "spawned"
    /\ next = genesis
    /\ next_hash = None
    /\ sleeping = FALSE
    /\ stop = FALSE
    /\ synced = "None"
    /\ popped = <<>>
    /\ blocks = CFPut(EmptyCF, GenesisHash, GenesisBlock)
    /\ active = <<GenesisHash>>
    /\ invalidated = 0
    /\ restarts = 0
    /\ prune_call = <<>>
    /\ reply = <<>>
    /\ \E m1 \in Mantissas, s1 \in Scales, m2 \in Mantissas, s2 \in Scales :
          dec = [a0 |-> <<m1, s1>>, a |-> <<m1, s1>>, b |-> <<m2, s2>>,
                 at |-> "start", wrapped |-> FALSE]

\* a += b, completed: always where nothing overflows, and on overflow in a
\* build without overflow checks, which stores the wrapped mantissa.
AddAssign ==
    /\ dec # <<>>
    /\ dec.at = "start"
    /\ dec' = [dec EXCEPT !.a = add_assign(dec.a, dec.b),
                          !.at = "added",
                          !.wrapped = @ \/ add_assign_overflows(dec.a, dec.b)]
    /\ UNCHANGED <<rocksdb, pc, next, next_hash, sleeping, stop, synced,
                   popped, blocks, active, invalidated, restarts,
                   prune_call, reply>>

\* a -= b, completed likewise.
SubAssign ==
    /\ dec # <<>>
    /\ dec.at = "added"
    /\ dec' = [dec EXCEPT !.a = sub_assign(dec.a, dec.b),
                          !.at = "restored",
                          !.wrapped = @ \/ sub_assign_overflows(dec.a, dec.b)]
    /\ UNCHANGED <<rocksdb, pc, next, next_hash, sleeping, stop, synced,
                   popped, blocks, active, invalidated, restarts,
                   prune_call, reply>>

\* The pending operation overflows in a build with overflow checks: the
\* thread panics and a keeps its value.
OverflowPanics ==
    /\ dec # <<>>
    /\ dec.at \in {"start", "added"}
    /\ IF dec.at = "start" THEN add_assign_overflows(dec.a, dec.b)
       ELSE sub_assign_overflows(dec.a, dec.b)
    /\ dec' = [dec EXCEPT !.at = "panicked"]
    /\ UNCHANGED <<rocksdb, pc, next, next_hash, sleeping, stop, synced,
                   popped, blocks, active, invalidated, restarts,
                   prune_call, reply>>

NextDecimal ==
    \/ AddAssign
    \/ SubAssign
    \/ OverflowPanics

DecimalSpec == InitDecimal /\ [][NextDecimal]_vars

\* C24: for all a and b where a already has the final scale
\* max(a.scale, b.scale) and nothing overflows on the way, `a += b; a -= b`
\* restores a exactly, mantissa and scale.
C24_DecimalRoundTrip ==
    (/\ dec # <<>>
     /\ dec.at = "restored"
     /\ dec.a0[2] >= dec.b[2]
     /\ ~dec.wrapped)
        => dec.a = dec.a0

\* A round trip where b was rescaled to the scale of a, without overflow.
C24_Witness ==
    /\ dec # <<>>
    /\ dec.at = "restored"
    /\ dec.a0[2] > dec.b[2]
    /\ dec.b[1] > 0
    /\ dec.a0[1] > 0
    /\ ~dec.wrapped

\* C25: a += or -= whose exact result, the rescaled mantissa included, is
\* outside 0..2^128-1 aborts: no such operation completes and stores a
\* wrapped mantissa.
C25_OverflowFatal ==
    dec # <<>> => ~dec.wrapped

\* C26: when the block handed to push cites an input that no earlier
\* transaction of the block created and that has no row in the store, push
\* aborts and commits nothing: the follower is dead, the five tables are as
\* before, and a restart resumes from the same committed tip.
C26_MissingInputAborts ==
    [][/\ (Connected /\ connect(next, blocks[next_hash]) = "Connected"
            /\ push_stage(rocksdb, blocks[next_hash]).panic)
          => (pc' = "panicked" /\ rocksdb' = rocksdb)
       /\ (Start /\ restarts > 0 /\ peek(rocksdb) # <<>>)
          => (/\ rocksdb' = rocksdb
              /\ next' = [height |-> peek(rocksdb)[1].height + 1,
                          prev_hash |-> peek(rocksdb)[1].hash])]_vars

\* The follower died in push: the block that connects to its position cites
\* an input the store has no row for.
C26_Witness ==
    /\ pc = "panicked"
    /\ \E h \in DOMAIN blocks :
          /\ connect(next, blocks[h]) = "Connected"
          /\ push_stage(rocksdb, blocks[h]).panic

\* ------------------------------------------- a reorg below the retention
\* The follower has indexed the blocks 0..2 * Retention + 1 of a coinbase-only
\* chain, pruning once on the way (when next.height was 2 * Retention), and is
\* at the head of its loop; the upstream has mined two blocks more.
InitDeep ==
    /\ rocksdb = prune_until(PlainDb(2 * Retention + 1), Retention)
    /\ pc = "loop"
    /\ next = [height |-> 2 * Retention + 2, prev_hash |-> 2 * Retention + 2]
    /\ next_hash = None
    /\ sleeping = FALSE
    /\ stop = FALSE
    /\ synced = "Connected"
    /\ popped = <<>>
    /\ blocks = [hash \in 1..(2 * Retention + 4) |-> PlainBlock(hash - 1)]
    /\ active = [i \in 1..(2 * Retention + 4) |-> i]
    /\ invalidated = 0
    /\ restarts = 0
    /\ prune_call = <<>>
    /\ reply = <<>>
    /\ dec = <<>>

\* invalidateblock of the block at height Retention - 1, which is below
\* every Block row the first prune keeps.
InvalidateDeep ==
    /\ invalidated < MaxInvalidate
    /\ Len(active) > Retention
    /\ active' = SubSeq(active, 1, Retention - 1)
    /\ invalidated' = invalidated + 1
    /\ UNCHANGED <<rocksdb, pc, next, next_hash, sleeping, stop, synced,
                   popped, blocks, restarts, prune_call, reply, dec>>

\* generatetoaddress n on the shortened chain, with n large enough for the
\* new branch to pass the old one by one block.
GenerateDeep ==
    /\ invalidated > 0
    /\ Len(active) < Retention
    /\ LET first == Cardinality(DOMAIN blocks) + 1
           n == Cardinality(DOMAIN blocks) + 1 - Len(active)
       IN /\ blocks' =
                [hash \in 1..(first + n - 1) |->
                    IF hash < first THEN blocks[hash]
                    ELSE [hash |-> hash,
                          previousblockhash |-> IF hash = first
                                                THEN active[Len(active)]
                                                ELSE hash - 1,
                          height |-> Len(active) + (hash - first),
                          tx |-> <<CoinbaseTx(hash, Miner)>>]]
          /\ active' = active \o [i \in 1..n |-> first + i - 1]
    /\ UNCHANGED <<rocksdb, pc, next, next_hash, sleeping, stop, synced,
                   popped, invalidated, restarts, prune_call, reply, dec>>

NextDeep ==
    \/ InvalidateDeep
    \/ GenerateDeep
    \/ Start
    \/ IdleYield
    \/ Probe
    \/ GetBlockhashOk
    \/ GetBlockhashNotFound
    \/ RpcFails
    \/ Connected
    \/ Forked
    \/ Restart

\* The follower is scheduled whenever it can run, and an upstream call that
\* is retried forever succeeds in the end.
DeepReorgSpec ==
    /\ InitDeep
    /\ [][NextDeep]_vars
    /\ WF_vars(Start)
    /\ WF_vars(Probe)
    /\ WF_vars(IdleYield)
    /\ WF_vars(GetBlockhashNotFound)
    /\ SF_vars(GetBlockhashOk)
    /\ SF_vars(Connected)
    /\ SF_vars(Forked)

\* The follower has seen a fork whose common ancestor with the indexed chain
\* is below every Block row the store holds.
DeepForkSeen ==
    /\ synced = "Forked"
    /\ \A h \in DOMAIN rocksdb.block :
          h >= Len(active) \/ active[h + 1] # rocksdb.block[h].hash

\* C27: a reorg deeper than the retained blocks surfaces as a fatal abort of
\* the follower: once the follower has seen such a fork it ends up dead, pop
\* having found no Block row or no BlockUndo row for the tip.
C27_DeepReorgAborts == DeepForkSeen ~> (pc = "panicked")

\* C28: whenever the follower task starts, its position is taken from the
\* store: {0, zero hash} when Block is empty, else {tip.height + 1, tip.hash}
\* for the highest Block row.
C28_FollowerInit ==
    [][(pc = "spawned" /\ pc' = "loop") =>
          next' = IF DOMAIN rocksdb.block = {}
                  THEN [height |-> 0, prev_hash |-> 0]
                  ELSE LET tip == CHOOSE h \in DOMAIN rocksdb.block :
                                      \A g \in DOMAIN rocksdb.block : g <= h
                       IN [height |-> tip + 1,
                           prev_hash |-> rocksdb.block[tip].hash]]_vars

\* The follower has been started again on a store that holds blocks.
C28_Witness ==
    /\ restarts > 0
    /\ pc = "loop"
    /\ synced = "None"
    /\ DOMAIN rocksdb.block # {}
    /\ next.height = Cardinality(DOMAIN rocksdb.block)

\* ------------------------------------------ a block without a parent hash
\* The upstream serves, on its tip, a block above height 0 whose
\* previousblockhash is absent (the field is optional in the reply).
MineHeadless ==
    /\ Cardinality(DOMAIN blocks) <= MaxMinedPlain
    /\ \A h \in DOMAIN blocks :
          blocks[h].height = 0 \/ blocks[h].previousblockhash # None
    /\ LET hash == Cardinality(DOMAIN blocks) + 1 IN
       /\ blocks' = CFPut(blocks, hash,
              [hash |-> hash,
               previousblockhash |-> None,
               height |-> Len(active),
               tx |-> <<CoinbaseTx(hash, Miner)>>])
       /\ active' = Append(active, hash)
    /\ UNCHANGED <<rocksdb, pc, next, next_hash, sleeping, stop, synced,
                   popped, invalidated, restarts,
                   prune_call, reply, dec>>

NextConnect ==
    \/ MinePlain
    \/ MineHeadless
    \/ Invalidate
    \/ Start
    \/ IdleYield
    \/ Probe
    \/ GetBlockhashOk
    \/ GetBlockhashNotFound
    \/ RpcFails
    \/ Connected
    \/ Forked

ConnectSpec == Init /\ [][NextConnect]_vars

\* The step in which connect returns, or panics, after getblockhash and
\* getblock have both answered: the follower leaves get_block and does not
\* go to sleep as it does on an error.
Classified ==
    /\ pc = "get_block"
    /\ pc' \in {"loop", "panicked"}
    /\ ~sleeping'

\* C29: when both calls answer with block B, the step is Connected iff
\* B.previousblockhash is present and equals next.prev_hash, or is absent
\* with B.height = 0; it is Forked iff B.previousblockhash is present and
\* differs from next.prev_hash; an absent previousblockhash with B.height > 0
\* is fatal and changes no table.
C29_ProbeClassification ==
    [][Classified =>
          LET B == blocks[next_hash] IN
          /\ (pc' = "loop" /\ synced' = "Connected")
                <=> \/ /\ B.previousblockhash # None
                       /\ B.previousblockhash = next.prev_hash
                    \/ /\ B.previousblockhash = None
                       /\ B.height = 0
          /\ (pc' = "loop" /\ synced' = "Forked")
                <=> /\ B.previousblockhash # None
                    /\ B.previousblockhash # next.prev_hash
          /\ (B.previousblockhash = None /\ B.height > 0)
                => (pc' = "panicked" /\ rocksdb' = rocksdb)]_vars

\* The follower died on a served block above height 0 that names no parent.
C29_Witness ==
    /\ pc = "panicked"
    /\ next.height > 0
    /\ next.height < Len(active)
    /\ blocks[active[next.height + 1]].previousblockhash = None

\* C30: on Connected(B) the follower commits push(B) and sets next to
\* {next.height + 1, B.hash}; afterwards peek() is the block (B.height,
\* B.hash, B.previousblockhash), and B.height is the height that was probed.
C30_ConnectedTransition ==
    [][(Classified /\ pc' = "loop" /\ synced' = "Connected") =>
          LET B == blocks[next_hash] IN
          /\ \E order \in Orders(DOMAIN push_stage(rocksdb, B).utxos) :
                rocksdb' = push(rocksdb, B, order).db
          /\ next' = [height |-> next.height + 1, prev_hash |-> B.hash]
          /\ peek(rocksdb') =
                <<[height |-> B.height,
                   hash |-> B.hash,
                   prev_hash |-> IF B.previousblockhash = None THEN 0
                                 ELSE B.previousblockhash]>>
          /\ B.height = next.height]_vars

\* The follower has connected a block after a fork: the tip row is that
\* block and next points above it.
C30_Witness ==
    /\ pc = "loop"
    /\ synced = "Connected"
    /\ popped # <<>>
    /\ peek(rocksdb) # <<>>
    /\ next = [height |-> peek(rocksdb)[1].height + 1,
               prev_hash |-> peek(rocksdb)[1].hash]

\* The step in which the Forked arm runs to its end.
ForkedStep ==
    /\ Classified
    /\ pc' = "loop"
    /\ synced' = "Forked"

\* C31: on Forked the follower pops once, pop returns the (height, hash,
\* prev_hash) of the block that was the tip, next becomes {popped.height,
\* popped.prev_hash}, and the height the next probe asks for is one less
\* than the height probed before.
C31_ForkedTransition ==
    [][ForkedStep =>
          /\ popped' = peek(rocksdb)
          /\ next' = [height |-> popped'[1].height,
                      prev_hash |-> popped'[1].prev_hash]
          /\ next'.height = next.height - 1]_vars

\* The step in which the Errored arm runs: an upstream call was pending and
\* the follower is back at the head of its loop with Synced::Errored.
ErroredStep ==
    /\ pc \in {"get_blockhash", "get_block"}
    /\ pc' = "loop"
    /\ synced' = "Errored"

\* C32: when getblockhash or getblock fails, no table is modified, next is
\* unchanged, nothing is popped and the follower stays alive; it sleeps, and
\* while it sleeps it makes no upstream call (it only yields, keeping next
\* and the store, and still observes a stop), so that the probe after the
\* sleep asks for the same height again.
C32_ErroredTransition ==
    [][/\ ErroredStep =>
             /\ rocksdb' = rocksdb
             /\ next' = next
             /\ popped' = popped
             /\ sleeping'
       /\ (pc = "loop" /\ sleeping) =>
             /\ pc' \notin {"get_blockhash", "get_block", "panicked"}
             /\ pc' = "loop" => (next' = next /\ rocksdb' = rocksdb)
       /\ (pc = "loop" /\ sleeping /\ stop) => ENABLED ObserveStop
       /\ pc \in {"get_blockhash", "get_block"} => ENABLED RpcFails]_vars

\* After a failed call and the sleep, the follower probes the height it
\* probed before, above a store that holds blocks.
C32_Witness ==
    /\ synced = "Errored"
    /\ pc = "get_blockhash"
    /\ ~sleeping
    /\ peek(rocksdb) # <<>>
    /\ next = for_next(peek(rocksdb)[1])

\* The step in which the Connected arm runs to its end.
ConnectedStep ==
    /\ Classified
    /\ pc' = "loop"
    /\ synced' = "Connected"

\* The positions of the ScriptInfo undo entries for script s in an undo list.
InfoUndos(vec, s) ==
    {i \in DOMAIN vec :
        /\ vec[i].tag \in {"ScriptInfoPut", "ScriptInfoDelete"}
        /\ vec[i].arg.script = s}

\* C33: for each script a pushed block touches, by an input or an output,
\* however often, BlockUndo holds exactly one ScriptInfo undo entry: the
\* ScriptInfoPut of the row before the block if there was one, else the
\* ScriptInfoDelete of the script; and none for a script it does not touch.
C33_OneInfoUndoPerScript ==
    [][ConnectedStep =>
          LET B == blocks[next_hash]
              vec == rocksdb'.block_undo[B.height].vec
          IN \A s \in Scripts :
                IF Untouched({B}, s) THEN InfoUndos(vec, s) = {}
                ELSE /\ Cardinality(InfoUndos(vec, s)) = 1
                     /\ \A i \in InfoUndos(vec, s) :
                           vec[i] = IF s \in DOMAIN rocksdb.script_info
                                    THEN Undo("ScriptInfoPut",
                                              rocksdb.script_info[s])
                                    ELSE Undo("ScriptInfoDelete",
                                              [script |-> s])]_vars

\* The tip block touches some script more than once, and its undo list has
\* the ScriptInfoPut of a row that existed before.
C33_Witness ==
    /\ pc = "loop"
    /\ synced = "Connected"
    /\ peek(rocksdb) # <<>>
    /\ LET tip == peek(rocksdb)[1]
           B == blocks[tip.hash]
           vec == rocksdb.block_undo[tip.height].vec
       IN \E s \in Scripts :
             /\ Cardinality(OutputTouches({B}, s))
                  + Cardinality(InputTouches({B}, s)) >= 2
             /\ \E i \in InfoUndos(vec, s) : vec[i].tag = "ScriptInfoPut"

\* ------------------------------------------------------- replaying undos
\* The tables after the loop of Db::pop over an undo list, were its batch
\* written: one put or delete per entry, in the order given.
replay(db, vec) ==
    WriteBatch(db, [i \in DOMAIN vec |-> pop_op(vec[i])])

\* An undo list with the entries at positions i and j exchanged.
Swapped(vec, i, j) ==
    [k \in DOMAIN vec |-> IF k = i THEN vec[j] ELSE IF k = j THEN vec[i]
                          ELSE vec[k]]

Reversed(vec) == [k \in DOMAIN vec |-> vec[Len(vec) + 1 - k]]

\* Two undo entries that put or delete the same key of the same table.
SameKey(u, v) ==
    /\ pop_op(u).cf = pop_op(v).cf
    /\ pop_op(u).key = pop_op(v).key

\* C34: no two undo entries of one block act on the same key of the same
\* table (so the result of a replay does not depend on the order: every
\* key is written by at most one entry), and replaying the list of a pushed
\* block in list order, in reverse order, with any two entries exchanged,
\* or twice, yields the same tables.
C34_UndoOrderIndependent ==
    [][ConnectedStep =>
          LET B == blocks[next_hash] IN
          \E vec \in {rocksdb'.block_undo[B.height].vec} :
          \E once \in {replay(rocksdb', vec)} :
             /\ \A i, j \in DOMAIN vec :
                   i # j => ~SameKey(vec[i], vec[j])
             /\ replay(rocksdb', Reversed(vec)) = once
             /\ \A i, j \in DOMAIN vec :
                   i < j => replay(rocksdb', Swapped(vec, i, j)) = once
             /\ replay(once, vec) = once]_vars

\* The tip block has spent a stored output and created others: its undo
\* list has restoring and deleting entries for Utxo and UtxoKey, and entries
\* for two scripts.
C34_Witness ==
    /\ pc = "loop"
    /\ synced = "Connected"
    /\ peek(rocksdb) # <<>>
    /\ LET vec == rocksdb.block_undo[peek(rocksdb)[1].height].vec IN
       /\ \E i \in DOMAIN vec : vec[i].tag = "UtxoPut"
       /\ \E i \in DOMAIN vec : vec[i].tag = "UtxoDelete"
       /\ \A s \in Scripts : InfoUndos(vec, s) # {}

\* C35: whenever the follower is between iterations (at the head of its
\* loop, after a Connected, Forked or Errored step alike), next agrees with
\* the committed store: {tip.height + 1, tip.hash}, or {0, zero hash} when
\* Block is empty, which is what a restart at that point would compute.
C35_NextAgreesWithStore ==
    pc = "loop" =>
        next = IF peek(rocksdb) = <<>> THEN [height |-> 0, prev_hash |-> 0]
               ELSE [height |-> peek(rocksdb)[1].height + 1,
                     prev_hash |-> peek(rocksdb)[1].hash]

\* C36: push is only invoked with B.height = tip.height + 1, or height 0 on
\* an empty store: it never overwrites an existing Block or BlockUndo row,
\* and the heights in Block stay one contiguous range ending at the tip.
C36_PushOnlyAboveTip ==
    [][ConnectedStep =>
          LET B == blocks[next_hash] IN
          /\ B.height = IF peek(rocksdb) = <<>> THEN 0
                        ELSE peek(rocksdb)[1].height + 1
          /\ B.height \notin DOMAIN rocksdb.block
          /\ B.height \notin DOMAIN rocksdb.block_undo
          /\ \A h \in DOMAIN rocksdb'.block :
                h = B.height \/ (h + 1) \in DOMAIN rocksdb'.block]_vars

\* The greatest scale among a decimal and the values of a set of Utxo rows.
MaxScale(d, rows) ==
    CHOOSE m \in {d[2]} \cup {o.value[2] : o \in rows} :
        \A n \in {d[2]} \cup {o.value[2] : o \in rows} : n <= m

\* The sum of the values of a set of Utxo rows, at the given scale.
RECURSIVE SumAt(_, _)
SumAt(rows, scale) ==
    IF rows = {} THEN 0
    ELSE LET o == CHOOSE x \in rows : TRUE
         IN AtScale(o.value, scale) + SumAt(rows \ {o}, scale)

TxidsOf(B) == {B.tx[t].txid : t \in DOMAIN B.tx}

\* C38: in every committed state every Utxo and UtxoKey row has a height at
\* most the tip height, and once the block at height h has been reverted by
\* a Forked step no Utxo or UtxoKey row created by that block remains.
C38_NoRowsOfRevertedBlock ==
    /\ \A k \in DOMAIN rocksdb.utxo :
          peek(rocksdb) # <<>> /\ k.height <= peek(rocksdb)[1].height
    /\ \A v \in DOMAIN rocksdb.utxo_key :
          peek(rocksdb) # <<>>
          /\ rocksdb.utxo_key[v].height <= peek(rocksdb)[1].height
    /\ (pc = "loop" /\ synced = "Forked" /\ popped # <<>>) =>
          LET reverted == TxidsOf(blocks[popped[1].hash]) IN
          /\ \A k \in DOMAIN rocksdb.utxo : k.vout.txid \notin reverted
          /\ \A v \in DOMAIN rocksdb.utxo_key : v.txid \notin reverted

\* --------------------------------------- listunspent beside the follower
\* `block_tip.height - utxo.key.height + 1` of listunspent, in u64: <<c>>
\* for the value, <<>> where the build checks overflow and the subtraction
\* underflows; a build without the checks wraps both operations.
confirmations(block_tip, key, overflow_checks) ==
    IF block_tip.height >= key.height
    THEN <<block_tip.height - key.height + 1>>
    ELSE IF overflow_checks THEN <<>>
    ELSE IF key.height - block_tip.height = 1 THEN <<0>>
    ELSE <<U64_MAX - (key.height - block_tip.height) + 2>>

\* listunspent after `let block_tip = self.index.db.peek()`: the bounds, the
\* scan of the Utxo table as it is when the iterator is made, and the
\* entries built from it.
listunspent_scan(db, block_tip, address, minconf, maxconf, count, checks) ==
    LET utxo_iterator ==
            iterator_script_utxo(db, address,
                                 lower_bound(block_tip, maxconf),
                                 upper_bound(block_tip, minconf))
        cnt == IF count # None /\ count <= MAX_COUNT THEN count ELSE MAX_COUNT
        taken == IF Len(utxo_iterator) <= cnt THEN utxo_iterator
                 ELSE SubSeq(utxo_iterator, 1, cnt)
    IN IF \E i \in 1..Len(taken) :
             confirmations(block_tip, taken[i].key, checks) = <<>>
       THEN [panic |-> TRUE, utxos |-> <<>>]
       ELSE [panic |-> FALSE,
             utxos |-> [i \in 1..Len(taken) |->
                     [txid |-> taken[i].key.vout.txid,
                      vout |-> taken[i].key.vout.n,
                      address |-> address,
                      script_pub_key |-> address,
                      amount |-> taken[i].value,
                      confirmations |->
                          confirmations(block_tip, taken[i].key,
                                        checks)[1],
                      height |-> taken[i].key.height,
                      coinbase |-> taken[i].coinbase]]]

\* The minconf a request beside the follower carries.
RaceMinconf == {None, 1}

\* A request task runs listunspent up to and including the read of the tip;
\* on a store without a block the unwrap of peek() panics.
PeekTip ==
    /\ reply = <<>>
    /\ \E minconf \in RaceMinconf :
          reply' = <<[method |-> IF peek(rocksdb) = <<>> THEN "listunspent"
                                 ELSE "listunspent.peeked",
                      address |-> Miner,
                      minconf |-> minconf,
                      maxconf |-> None,
                      count |-> None,
                      block_tip |-> peek(rocksdb),
                      result |-> IF peek(rocksdb) = <<>>
                                 THEN [panic |-> TRUE, utxos |-> <<>>]
                                 ELSE <<>>]>>
    /\ UNCHANGED <<rocksdb, pc, next, next_hash, sleeping, stop, synced,
                   popped, blocks, active, invalidated, restarts, prune_call,
                   dec>>

\* The request task goes on: it scans the Utxo table as the follower has
\* left it by now and answers.
ScanUtxos ==
    /\ reply # <<>>
    /\ reply[1].method = "listunspent.peeked"
    /\ \E overflow_checks \in BOOLEAN :
          reply' = <<[reply[1] EXCEPT
                        !.method = "listunspent",
                        !.result = listunspent_scan(rocksdb,
                                       reply[1].block_tip[1], reply[1].address,
                                       reply[1].minconf, reply[1].maxconf,
                                       reply[1].count, overflow_checks)]>>
    /\ UNCHANGED <<rocksdb, pc, next, next_hash, sleeping, stop, synced,
                   popped, blocks, active, invalidated, restarts, prune_call,
                   dec>>

\* The follower of a coinbase-only upstream, and one listunspent request
\* served on another thread of the runtime.
NextRace ==
    \/ MinePlain
    \/ Invalidate
    \/ Start
    \/ IdleYield
    \/ Probe
    \/ GetBlockhashOk
    \/ GetBlockhashNotFound
    \/ RpcFails
    \/ Connected
    \/ Forked
    \/ PeekTip
    \/ ScanUtxos

RaceSpec == Init /\ [][NextRace]_vars

\* C39: under every interleaving of a listunspent request with the
\* follower, each returned entry has a height at most the height of the tip
\* the request read, so that confirmations = tip - height + 1 is at least 1
\* and the subtraction does not underflow.
C39_ConfirmationsNeverUnderflow ==
    \A r \in Replies("listunspent") :
        r.block_tip # <<>> =>
            /\ ~r.result.panic
            /\ \A e \in Range(r.result.utxos) :
                  /\ e.height <= r.block_tip[1].height
                  /\ e.confirmations >= 1

\* The upstream active chain has no block at the height the follower probes.
UpstreamShorter == next.height >= Len(active)

\* The Block rows of blocks that are not in the upstream active chain.
StaleHeights ==
    {h \in DOMAIN rocksdb.block :
        h >= Len(active) \/ active[h + 1] # rocksdb.block[h].hash}

\* C40: when getblockhash(next.height) fails because the active chain has no
\* block at that height, the step is Errored and not Forked: nothing is
\* popped and no table changes, and no getblock follows; a table changes or
\* a block is popped only on a step that holds the hash the upstream gave
\* for height next.height.
C40_ShorterUpstreamIsErrored ==
    [][/\ (pc = "get_blockhash" /\ UpstreamShorter
           /\ pc' \in {"loop", "get_block", "panicked"}) =>
             /\ pc' = "loop"
             /\ synced' = "Errored"
             /\ sleeping'
             /\ rocksdb' = rocksdb
             /\ popped' = popped
             /\ next' = next
       /\ (rocksdb' # rocksdb \/ popped' \notin {popped, <<>>}) =>
             /\ pc = "get_block"
             /\ blocks[next_hash].height = next.height]_vars

\* The step was Errored while the index holds blocks the upstream has left.
C40_Witness ==
    /\ pc = "loop"
    /\ synced = "Errored"
    /\ sleeping
    /\ UpstreamShorter
    /\ invalidated > 0
    /\ StaleHeights # {}

====
